---- MODULE Spec2Model ----
(***************************************************************************)
(* A model of the cloze-reader game engine (src/src/clozeGameEngine.js),   *)
(* its hint tracker (src/src/conversationManager.js) and the parts of the  *)
(* generative-text client (src/src/aiService.js) that the engine relies    *)
(* on.  Texts are TLA+ strings (sequences of characters), so tokenising,   *)
(* cleaning and case folding are computed character by character, the way  *)
(* the JavaScript does it.                                                 *)
(***************************************************************************)
EXTENDS Integers, Sequences, FiniteSets, TLC

(***************************************************************************)
(* Bounds of the model.                                                    *)
(***************************************************************************)
MaxRound == 4
MaxLevel == 12
MaxTotal == 9
MaxHintRounds == 1
MaxHints == 2

(***************************************************************************)
(* Characters and the string primitives of JavaScript that the code uses.  *)
(***************************************************************************)
UpperChars == "ABCDEFGHIJKLMNOPQRSTUVWXYZ"
LowerChars == "abcdefghijklmnopqrstuvwxyz"
DigitChars == "0123456789_"

Ch(s, i) == SubSeq(s, i, i)

CharsOf(s) == {Ch(s, i) : i \in 1..Len(s)}

UpperSet == CharsOf(UpperChars)

LowerSet == CharsOf(LowerChars)

\* position of the one-character string c in s
IndexIn(c, s) == CHOOSE i \in 1..Len(s) : Ch(s, i) = c

toLowerChar(c) == IF c \in UpperSet THEN Ch(LowerChars, IndexIn(c, UpperChars)) ELSE c

toUpperChar(c) == IF c \in LowerSet THEN Ch(UpperChars, IndexIn(c, LowerChars)) ELSE c

IsLetter(c) == c \in UpperSet \/ c \in LowerSet

\* the class \w of a JavaScript regular expression
WordCharSet == UpperSet \cup LowerSet \cup CharsOf(DigitChars)

IsWordChar(c) == c \in WordCharSet

\* the class \s, for the white space that occurs in the modelled texts
IsSpace(c) == c = " " \/ c = "\n"

RECURSIVE toLowerCase(_)
toLowerCase(s) ==
  IF s = "" THEN "" ELSE toLowerChar(Head(s)) \o toLowerCase(Tail(s))

\* s.replace(/[^\w]/g, '')
RECURSIVE stripNonWord(_)
stripNonWord(s) ==
  IF s = "" THEN ""
  ELSE (IF IsWordChar(Head(s)) THEN Head(s) ELSE "") \o stripNonWord(Tail(s))

\* s.replace(/[^a-zA-Z]/g, '')
RECURSIVE stripNonAlpha(_)
stripNonAlpha(s) ==
  IF s = "" THEN ""
  ELSE (IF IsLetter(Head(s)) THEN Head(s) ELSE "") \o stripNonAlpha(Tail(s))

\* s.trim()
RECURSIVE trimStart(_)
trimStart(s) == IF s # "" /\ IsSpace(Head(s)) THEN trimStart(Tail(s)) ELSE s

RECURSIVE trimEnd(_)
trimEnd(s) ==
  IF s # "" /\ IsSpace(Ch(s, Len(s))) THEN trimEnd(SubSeq(s, 1, Len(s) - 1)) ELSE s

trim(s) == trimEnd(trimStart(s))

endsWith(s, suffix) ==
  Len(s) >= Len(suffix) /\ SubSeq(s, Len(s) - Len(suffix) + 1, Len(s)) = suffix

\* s.includes(sub)
includes(s, sub) ==
  \E i \in 1..(Len(s) - Len(sub) + 1) : SubSeq(s, i, i + Len(sub) - 1) = sub

\* the ascending sequence of a set of numbers
RECURSIVE sortedSeq(_)
sortedSeq(S) ==
  IF S = {} THEN <<>>
  ELSE LET m == CHOOSE i \in S : \A j \in S : i <= j
       IN <<m>> \o sortedSeq(S \ {m})

\* s.split(' '): cut at every single space; adjacent spaces give empty pieces
splitSpace(s) ==
  LET cuts == <<0>> \o sortedSeq({i \in 1..Len(s) : Ch(s, i) = " "}) \o <<Len(s) + 1>>
  IN [k \in 1..(Len(cuts) - 1) |-> SubSeq(s, cuts[k] + 1, cuts[k + 1] - 1)]

\* s.split(/(\s+)/).filter(w => w.trim() !== ''): the maximal runs of
\* characters other than white space
splitWs(s) ==
  LET inWord(i) == i >= 1 /\ i <= Len(s) /\ ~IsSpace(Ch(s, i))
      starts == sortedSeq({i \in 1..Len(s) : inWord(i) /\ ~inWord(i - 1)})
      ends == sortedSeq({i \in 1..Len(s) : inWord(i) /\ ~inWord(i + 1)})
  IN [k \in 1..Len(starts) |-> SubSeq(s, starts[k], ends[k])]

(***************************************************************************)
(* JavaScript arrays are indexed from 0: At(a, i) is a[i].                 *)
(***************************************************************************)
At(a, i) == a[i + 1]

Indices(a) == 0..(Len(a) - 1)

\* a.findIndex(pred), given the set of the indices that satisfy pred
firstOf(S) == IF S = {} THEN -1 ELSE CHOOSE i \in S : \A j \in S : i <= j

\* a variant that finds no index taken
neverIncluded(a, v) == FALSE

\* a.includes(v) for an array a
hasElem(a, v) == \E i \in 1..Len(a) : a[i] = v

Range(a) == {a[i] : i \in 1..Len(a)}

\* a.sort((x, y) => x - y): the elements of a, each as often as in a,
\* ascending
RECURSIVE sortIndices(_)
sortIndices(a) ==
  IF Len(a) = 0 THEN <<>>
  ELSE LET m == CHOOSE v \in Range(a) : \A w \in Range(a) : v <= w
           i == CHOOSE j \in 1..Len(a) : a[j] = m /\ \A h \in 1..(j - 1) : a[h] # m
       IN <<m>> \o sortIndices(SubSeq(a, 1, i - 1) \o SubSeq(a, i + 1, Len(a)))

\* a variant that keeps the whole array
sliceNothing(a, n) == a

\* a.slice(0, n)
sliceTo(a, n) == SubSeq(a, 1, IF Len(a) < n THEN Len(a) ELSE n)

(***************************************************************************)
(* The corpus.  A book is known by its passage: the text that              *)
(* extractCoherentPassage cuts from it and startNewRound trims.            *)
(***************************************************************************)
TextGarden ==
  "The quiet garden was full of birds and she walked slowly with Mary through the garden gate."

TextRain ==
  "When the rain came down upon the old house we stayed inside and listened quietly."

\* a book too short to hold an eligible word
TextShort == "Call me Ishmael."

\* a passage that keeps a line break and a doubled space of its source
TextWrapped ==
  "She had never  seen the sea before that\nmorning and the great waves frightened her terribly."

GameTexts == {TextGarden, TextRain}

AllTexts == {TextGarden, TextRain, TextShort, TextWrapped}


(***************************************************************************)
(* Blanks per passage, as computed in the three places that need it.       *)
(***************************************************************************)
startNewRoundBlanks(level) ==
  IF level <= 5 THEN 1 ELSE IF level <= 10 THEN 2 ELSE 3

preprocessedExpectedBlanks(level) ==
  IF level <= 5 THEN 1 ELSE IF level <= 10 THEN 2 ELSE 3

\* a variant with the first threshold off by one
blanksOffByOne(level) ==
  IF level < 5 THEN 1 ELSE IF level <= 10 THEN 2 ELSE 3

createClozeTextBlanks(level) ==
  IF level <= 5 THEN 1 ELSE IF level <= 10 THEN 2 ELSE 3

(***************************************************************************)
(* dividePassageIntoSections and selectWordsManually.  Math.random is a    *)
(* free choice, so selectWordsManually is the set of the lists it can      *)
(* return.                                                                 *)
(***************************************************************************)
dividePassageIntoSections(totalWords, numberOfBlanks) ==
  LET sectionSize == totalWords \div numberOfBlanks
  IN [k \in 1..numberOfBlanks |->
        [start |-> (k - 1) * sectionSize,
         end   |-> IF k = numberOfBlanks THEN totalWords ELSE k * sectionSize]]

functionWords ==
  {"the", "a", "an",
   "in", "on", "at", "to", "for", "of", "with", "by", "from", "up", "about",
   "into", "over", "after",
   "and", "or", "but", "so", "yet", "nor", "because", "since", "although",
   "if", "when", "while",
   "i", "you", "he", "she", "it", "we", "they", "me", "him", "her", "us",
   "them", "my", "your", "his", "its", "our", "their",
   "this", "that", "these", "those", "who", "what", "which", "whom", "whose",
   "is", "are", "was", "were", "be", "been", "being", "have", "has", "had",
   "do", "does", "did",
   "will", "would", "could", "should", "may", "might", "must", "can", "shall"}

\* the indices of the content words: longer than 3 and at most 12 letters,
\* no function word, first character unchanged by toLowerCase
contentWordIndices(words) ==
  {i \in Indices(words) :
     LET cleanWord == stripNonWord(toLowerCase(At(words, i)))
         originalCleanWord == stripNonWord(At(words, i))
     IN /\ Len(cleanWord) > 3
        /\ Len(cleanWord) <= 12
        /\ cleanWord \notin functionWords
        /\ Ch(originalCleanWord, 1) = toLowerChar(Ch(originalCleanWord, 1))}

contentWordAt(words, i) == stripNonWord(toLowerCase(At(words, i)))

\* one random content word from each section that has any, in section order
RECURSIVE sectionPicks(_, _, _, _)
sectionPicks(words, content, sections, k) ==
  IF k > Len(sections) THEN {<<>>}
  ELSE LET sectionWords ==
             {i \in content : i >= sections[k].start /\ i < sections[k].end}
           rest == sectionPicks(words, content, sections, k + 1)
       IN IF sectionWords = {} THEN rest
          ELSE {<<contentWordAt(words, i)>> \o r : i \in sectionWords, r \in rest}

\* fill the remaining slots with content words not chosen yet
RECURSIVE fillPicks(_, _, _)
fillPicks(selectedWords, contentWords, numberOfBlanks) ==
  LET availableWords == contentWords \ Range(selectedWords)
  IN IF Len(selectedWords) < numberOfBlanks /\ availableWords # {}
       THEN UNION {fillPicks(Append(selectedWords, w), contentWords, numberOfBlanks) :
                     w \in availableWords}
       ELSE {selectedWords}

selectWordsManually(words, numberOfBlanks) ==
  LET content == contentWordIndices(words)
      sections == dividePassageIntoSections(Len(words), numberOfBlanks)
      contentWords == {contentWordAt(words, i) : i \in content}
  IN UNION {fillPicks(s, contentWords, numberOfBlanks) :
              s \in sectionPicks(words, content, sections, 1)}

(***************************************************************************)
(* Blanks, structural hints and the cloze text built from the chosen       *)
(* token indices; blank k (from 0) is the k-th chosen index.               *)
(***************************************************************************)
placeholder(k) == "___BLANK_" \o ToString(k) \o "___"

structuralHint(cleanWord, k, level) ==
  [index      |-> k,
   letters    |-> Len(cleanWord),
   startsWith |-> Ch(cleanWord, 1),
   endsWith   |-> IF level <= 2 THEN Ch(cleanWord, Len(cleanWord)) ELSE ""]

buildCloze(words, selectedIndices, level) ==
  [blanks |->
     [k \in 1..Len(selectedIndices) |->
        [index        |-> k - 1,
         originalWord |-> stripNonWord(At(words, selectedIndices[k])),
         wordIndex    |-> selectedIndices[k]]],
   hints |->
     [k \in 1..Len(selectedIndices) |->
        structuralHint(stripNonWord(At(words, selectedIndices[k])), k - 1, level)],
   \* a later blank overwrites the placeholder of an earlier one on the same token
   clozeText |->
     [i \in 1..Len(words) |->
        LET ks == {k \in 1..Len(selectedIndices) : selectedIndices[k] = i - 1}
        IN IF ks = {} THEN words[i]
           ELSE placeholder((CHOOSE k \in ks : \A j \in ks : j <= k) - 1)]]

(***************************************************************************)
(* createClozeTextFromPreprocessed: the words of the batch answer are      *)
(* looked up in the passage by exact, substring and stem matching.         *)
(***************************************************************************)
\* w.replace(/(ed|ing|s|es|er|est)$/, ''): the leftmost match is the longest
\* of the listed suffixes that ends the word
stripSuffix(w) ==
  IF endsWith(w, "ing") \/ endsWith(w, "est") THEN SubSeq(w, 1, Len(w) - 3)
  ELSE IF endsWith(w, "ed") \/ endsWith(w, "es") \/ endsWith(w, "er")
    THEN SubSeq(w, 1, Len(w) - 2)
  ELSE IF endsWith(w, "s") THEN SubSeq(w, 1, Len(w) - 1)
  ELSE w

matchPreprocessedWord(wordsOnly, word, selectedIndices) ==
  LET cleanWord == toLowerCase(stripNonWord(word))
      free(idx) == ~hasElem(selectedIndices, idx)
      exact == firstOf({idx \in Indices(wordsOnly) :
                  toLowerCase(stripNonWord(At(wordsOnly, idx))) = cleanWord /\ free(idx)})
      incl == firstOf({idx \in Indices(wordsOnly) :
                  includes(toLowerCase(At(wordsOnly, idx)), toLowerCase(word)) /\ free(idx)})
      baseWord == stripSuffix(cleanWord)
      base == IF Len(baseWord) > 2
                THEN firstOf({idx \in Indices(wordsOnly) :
                       stripSuffix(toLowerCase(stripNonWord(At(wordsOnly, idx)))) = baseWord
                       /\ free(idx)})
                ELSE -1
  IN IF exact # -1 THEN exact ELSE IF incl # -1 THEN incl ELSE base

RECURSIVE matchPreprocessed(_, _, _, _)
matchPreprocessed(wordsOnly, selectedWords, k, selectedIndices) ==
  IF k > Len(selectedWords) THEN selectedIndices
  ELSE LET index == matchPreprocessedWord(wordsOnly, selectedWords[k], selectedIndices)
       IN matchPreprocessed(wordsOnly, selectedWords, k + 1,
            IF index # -1 THEN Append(selectedIndices, index) ELSE selectedIndices)

\* the fallback words are looked up by exact match only
RECURSIVE matchFallback(_, _, _, _)
matchFallback(wordsOnly, fallbackWords, k, selectedIndices) ==
  IF k > Len(fallbackWords) THEN selectedIndices
  ELSE LET cleanFallback == stripNonWord(toLowerCase(fallbackWords[k]))
           index == firstOf({idx \in Indices(wordsOnly) :
                      toLowerCase(stripNonWord(At(wordsOnly, idx))) = cleanFallback
                      /\ ~hasElem(selectedIndices, idx)})
       IN matchFallback(wordsOnly, fallbackWords, k + 1,
            IF index # -1 THEN Append(selectedIndices, index) ELSE selectedIndices)

\* the lists of token indices the batch path can end with
preprocessedIndices(text, preprocessedWords, level) ==
  LET expectedBlanks == preprocessedExpectedBlanks(level)
      wordsOnly == splitWs(text)
      candidates == IF Len(preprocessedWords) = 0
                      THEN selectWordsManually(wordsOnly, expectedBlanks)
                      ELSE {preprocessedWords}
  IN UNION {
       LET selectedWords == sliceTo(c, expectedBlanks)
           found == matchPreprocessed(wordsOnly, selectedWords, 1, <<>>)
       IN IF Len(found) < expectedBlanks
            THEN {matchFallback(wordsOnly, fb, 1, found) :
                    fb \in selectWordsManually(wordsOnly, expectedBlanks - Len(found))}
            ELSE {found}
       : c \in candidates}

createClozeTextFromPreprocessed(text, preprocessedWords, level) ==
  {buildCloze(splitWs(text), sel, level) :
     sel \in preprocessedIndices(text, preprocessedWords, level)}

\* how the batch path comes by its blanks: the number of words it was
\* given, the number requested, the number
\* of tokens found for the words of the batch answer, and whether
\* selectWordsManually is called
preprocessedSelection(text, preprocessedWords, level) ==
  LET expectedBlanks == preprocessedExpectedBlanks(level)
      found == IF Len(preprocessedWords) = 0 THEN 0
               ELSE Len(matchPreprocessed(splitWs(text),
                          sliceTo(preprocessedWords, expectedBlanks), 1, <<>>))
  IN [path      |-> "createClozeTextFromPreprocessed",
      offered   |-> Len(preprocessedWords),
      requested |-> expectedBlanks,
      usable    |-> found,
      manual    |-> Len(preprocessedWords) = 0 \/ found < expectedBlanks]

(***************************************************************************)
(* createClozeText: the per-passage path.  significant is the answer of    *)
(* selectSignificantWords, or Throw when that call fails.                  *)
(***************************************************************************)
isCapitalized(token) ==
  LET originalWord == stripNonWord(token)
  IN Len(originalWord) > 0 /\ Ch(originalWord, 1) = toUpperChar(Ch(originalWord, 1))

matchSignificantWord(words, significantWord, section, selectedIndices) ==
  LET cleanSignificant == stripNonWord(toLowerCase(significantWord))
      ok(i) == /\ stripNonWord(toLowerCase(At(words, i))) = cleanSignificant
               /\ ~hasElem(selectedIndices, i)
               /\ ~isCapitalized(At(words, i))
      from == IF section.start > 10 THEN section.start ELSE 10
      inSection == firstOf({i \in from..(section.end - 1) : ok(i)})
      anywhere == firstOf({i \in Indices(words) : i >= 10 /\ ok(i)})
  IN IF inSection # -1 THEN inSection ELSE anywhere

RECURSIVE matchSignificant(_, _, _, _, _)
matchSignificant(words, significantWords, sections, k, selectedIndices) ==
  IF k > Len(significantWords) THEN selectedIndices
  ELSE LET section == IF k <= Len(sections) THEN sections[k]
                      ELSE [start |-> 0, end |-> Len(words)]
           wordIndex == matchSignificantWord(words, significantWords[k], section,
                                             selectedIndices)
       IN matchSignificant(words, significantWords, sections, k + 1,
            IF wordIndex # -1 THEN Append(selectedIndices, wordIndex)
            ELSE selectedIndices)

\* the manual words are looked up in the whole passage
RECURSIVE matchManual(_, _, _, _)
matchManual(words, manualWords, k, selectedIndices) ==
  IF k > Len(manualWords) THEN selectedIndices
  ELSE LET wordIndex == matchSignificantWord(words, manualWords[k],
                          [start |-> 0, end |-> 0], selectedIndices)
       IN matchManual(words, manualWords, k + 1,
            IF wordIndex # -1 THEN Append(selectedIndices, wordIndex)
            ELSE selectedIndices)

emergencySkip == {"the", "and", "but", "for", "are", "was"}

\* the first numberOfBlanks tokens from index 10 on that are longer than 3
emergencyIndices(words, numberOfBlanks) ==
  sliceTo(sortedSeq({i \in Indices(words) :
                       LET word == stripNonWord(toLowerCase(At(words, i)))
                       IN Len(word) > 3 /\ word \notin emergencySkip /\ i >= 10}),
          numberOfBlanks)

clozeTextIndices(text, significant, level) ==
  LET words == splitSpace(text)
      numberOfBlanks == createClozeTextBlanks(level)
      sections == dividePassageIntoSections(Len(words), numberOfBlanks)
      first == IF ~significant.ok
                 THEN selectWordsManually(words, numberOfBlanks)
                 ELSE {significant.words}
      significantWords ==
        UNION {IF Len(c) = 0 THEN selectWordsManually(words, numberOfBlanks) ELSE {c} :
                 c \in first}
      matched == {matchSignificant(words, c, sections, 1, <<>>) : c \in significantWords}
      afterManual ==
        UNION {IF Len(m) = 0
                 THEN {matchManual(words, mw, 1, <<>>) :
                         mw \in selectWordsManually(words, numberOfBlanks)}
                 ELSE {m} : m \in matched}
  IN {IF Len(m) = 0 THEN emergencyIndices(words, numberOfBlanks)
      ELSE sortIndices(m) : m \in afterManual}

createClozeText(text, significant, level) ==
  {buildCloze(splitSpace(text), sel, level) :
     sel \in clozeTextIndices(text, significant, level)}

\* how the per-passage path comes by its blanks: selectWordsManually is
\* called when the request fails, when it brings no word, and when none of
\* its words is found in the passage
clozeTextSelection(text, significant, level) ==
  LET words == splitSpace(text)
      numberOfBlanks == createClozeTextBlanks(level)
      sections == dividePassageIntoSections(Len(words), numberOfBlanks)
      answered == significant.ok /\ Len(significant.words) > 0
      found == IF answered
                 THEN Len(matchSignificant(words, significant.words, sections, 1, <<>>))
                 ELSE 0
  IN [path      |-> "createClozeText",
      offered   |-> IF significant.ok THEN Len(significant.words) ELSE 0,
      requested |-> numberOfBlanks,
      usable    |-> found,
      manual    |-> ~answered \/ found = 0]

(***************************************************************************)
(* The generative-text client (aiService.js).  The service is a black box: *)
(* what it answers is a free choice among the answers listed here; what    *)
(* the client makes of an answer is computed as the code computes it.      *)
(***************************************************************************)
\* a call that throws (a rejected promise), and JavaScript's null or undefined
Throw == [ok |-> FALSE]

NoValue == [none |-> TRUE]

problematicWords ==
  {"negro", "retard", "retarded", "nigger", "chinaman", "jap", "gypsy", "savage",
   "primitive", "heathen"}

\* the filter of validateWords and of selectSignificantWords
validWord(word, level) ==
  LET cleanWord == stripNonAlpha(word)
      lowerWord == toLowerCase(cleanWord)
  IN /\ lowerWord \notin problematicWords
     /\ IF level <= 2 THEN Len(cleanWord) >= 4 /\ Len(cleanWord) <= 7
        ELSE IF level <= 4 THEN Len(cleanWord) >= 4 /\ Len(cleanWord) <= 10
        ELSE Len(cleanWord) >= 5 /\ Len(cleanWord) <= 14

validateWords(words, level) == SelectSeq(words, LAMBDA w : validWord(w, level))

\* selectSignificantWords: the valid words of the answer, cut to count; the
\* call fails when no answer arrives or no word of it is valid
selectSignificantWords(answer, count, level) ==
  IF ~answer.ok THEN Throw
  ELSE LET validWords == validateWords(answer.words, level)
       IN IF Len(validWords) > 0
            THEN [ok |-> TRUE, words |-> sliceTo(validWords, count)]
            ELSE Throw

\* processBothPassages: an answer that parses as JSON has its empty strings
\* dropped and its words validated; one recovered by the regular expressions
\* is returned as extracted
processBothPassages(answer, book1, book2, level) ==
  IF ~answer.ok THEN Throw
  ELSE LET words(raw) ==
             IF answer.parsed
               THEN validateWords(SelectSeq(raw, LAMBDA w : trim(w) # ""), level)
               ELSE raw
       IN [ok |-> TRUE,
           passage1 |-> [words |-> words(answer.words1), context |-> book1.title],
           passage2 |-> [words |-> words(answer.words2), context |-> book2.title]]

(***************************************************************************)
(* The environment of the game: the books the corpus can hand out, the     *)
(* answers the generative-text service can give, what the player can type. *)
(***************************************************************************)
Books ==
  {[title |-> "The Garden", author |-> "A. Writer"],
   [title |-> "Rain", author |-> "B. Author"]}

\* the whole corpus: the two books of the game, a book too short to hold a
\* word worth blanking, and one whose passage keeps the line breaks
Library ==
  Books \cup {[title |-> "Moby Dick", author |-> "C. Sailor"],
              [title |-> "The Sea", author |-> "D. Poet"]}

\* extractCoherentPassage(book.text)
passageOf(book) ==
  IF book.title = "The Garden" THEN TextGarden
  ELSE IF book.title = "Rain" THEN TextRain
  ELSE IF book.title = "Moby Dick" THEN TextShort
  ELSE TextWrapped

\* word lists the service may propose when a cloze is built on its own
ClozeWordLists ==
  {<<>>, <<"slowly">>, <<"garden">>, <<"Mary">>, <<"stayed", "quietly">>,
   <<"gate", "Mary", "garden">>, <<"garden", "garden">>,
   <<"birds", "walked", "slowly", "through">>}

\* the word list the service proposes for a book's passage
wordAnswers(book) ==
  IF book.title = "The Garden" THEN {<<"slowly">>, <<"garden">>} ELSE {<<"stayed">>}

\* the batch request fails, or is answered with a list for each passage
batchAnswers(book1, book2) ==
  {Throw} \cup
  {[ok |-> TRUE, parsed |-> TRUE, words1 |-> w1, words2 |-> w2] :
     w1 \in wordAnswers(book1), w2 \in wordAnswers(book2)}

significantAnswers(book) ==
  {Throw} \cup {[ok |-> TRUE, words |-> w] : w \in wordAnswers(book)}

capitalize(w) == IF w = "" THEN "" ELSE toUpperChar(Head(w)) \o Tail(w)

\* what the player types into a blank: the word, in another case and with a
\* space around it, or something else
typedAnswers(blank) == {" " \o capitalize(blank.originalWord) \o " ", "zzz"}

\* the two books of a round, as the two requests to the corpus deliver them
BookPairs == {pair \in Books \X Books : pair[1] # pair[2]}

\* the levels a game can reach in MaxRound rounds
GameLevels == 1..(1 + MaxRound \div 2)

\* what the game makes of each input it can meet, computed once per input:
\* the trimmed passage of a book, and the clozes of the batch path and of the
\* per-passage path
trimmedPassage == [book \in Books |-> trim(passageOf(book))]

preprocessedClozes ==
  [book \in Books, words \in {<<>>} \cup UNION {wordAnswers(b) : b \in Books},
   level \in GameLevels |->
     createClozeTextFromPreprocessed(trim(passageOf(book)), words, level)]

sequentialClozes ==
  [book \in Books, answer \in UNION {significantAnswers(b) : b \in Books},
   level \in GameLevels |->
     createClozeText(trim(passageOf(book)),
                     selectSignificantWords(answer, createClozeTextBlanks(level), level),
                     level)]

preprocessedSelections ==
  [book \in Books, words \in {<<>>} \cup UNION {wordAnswers(b) : b \in Books},
   level \in GameLevels |->
     preprocessedSelection(trim(passageOf(book)), words, level)]

sequentialSelections ==
  [book \in Books, answer \in UNION {significantAnswers(b) : b \in Books},
   level \in GameLevels |->
     clozeTextSelection(trim(passageOf(book)),
                        selectSignificantWords(answer, createClozeTextBlanks(level), level),
                        level)]

(***************************************************************************)
(* The state of a ClozeGame and of its ChatService.                        *)
(***************************************************************************)
VARIABLES
  currentBook, originalText, clozeText, blanks, userAnswers, score,
  currentRound, currentLevel, contextualization, hints, lastResults,
  roundResults, currentBooks, passages, currentPassageIndex,
  roundsPassedAtCurrentLevel, preprocessedData,
  conversations, wordContexts, blankQuestions, chatLevel,
  \* history: the handler that ran last, what it returned, the verdict of the
  \* last nextRound on the round it closed, the closed rounds it passed, and
  \* what the generative-text service did in the last askQuestion
  lastOp, returned, roundPassed, passedRounds, upstream,
  \* history: how the cloze of the current passage was selected, and whether
  \* the last startNewRound made a batch request that failed
  selection, batchFailed,
  \* a request of the generative-text client in flight, and a passage
  \* extraction in progress
  request, extraction

engineVars ==
  <<currentBook, originalText, clozeText, blanks, userAnswers, score,
    currentRound, currentLevel, contextualization, hints, lastResults,
    roundResults, currentBooks, passages, currentPassageIndex,
    roundsPassedAtCurrentLevel, preprocessedData>>

chatVars == <<conversations, wordContexts, blankQuestions, chatLevel>>

historyVars == <<lastOp, returned, roundPassed, passedRounds, upstream>>

selectionVars == <<selection, batchFailed>>

clientVars == <<request, extraction>>

vars == <<engineVars, chatVars, historyVars, selectionVars, clientVars>>

\* the constructors of ClozeGame and ChatService
Init ==
  /\ currentBook = NoValue
  /\ originalText = ""
  /\ clozeText = <<>>
  /\ blanks = <<>>
  /\ userAnswers = <<>>
  /\ score = 0
  /\ currentRound = 1
  /\ currentLevel = 1
  /\ contextualization = ""
  /\ hints = <<>>
  /\ lastResults = NoValue
  /\ roundResults = <<>>
  /\ currentBooks = <<>>
  /\ passages = <<>>
  /\ currentPassageIndex = 0
  /\ roundsPassedAtCurrentLevel = 0
  /\ preprocessedData = NoValue
  /\ conversations = <<>>
  /\ wordContexts = <<>>
  /\ blankQuestions = <<>>
  /\ chatLevel = 1
  /\ lastOp = "constructor"
  /\ returned = [ok |-> TRUE]
  /\ roundPassed = FALSE
  /\ passedRounds = 0
  /\ upstream = NoValue
  /\ selection = NoValue
  /\ batchFailed = FALSE
  /\ request = NoValue
  /\ extraction = NoValue

(***************************************************************************)
(* ChatService: the maps are functions from blank numbers (blank_<k>).     *)
(***************************************************************************)
emptyMap == <<>>

mapSet(m, k, v) == [j \in DOMAIN m \cup {k} |-> IF j = k THEN v ELSE m[j]]

\* initializeWordContext for every blank of a freshly built cloze
initializeWordContexts(contexts, newBlanks, text, book) ==
  LET ids == {newBlanks[k].index : k \in 1..Len(newBlanks)}
  IN [j \in DOMAIN contexts \cup ids |->
        IF j \in ids
          THEN LET blank == newBlanks[j + 1]
               IN [blankId      |-> j,
                   targetWord   |-> blank.originalWord,
                   sentence     |-> text,
                   bookTitle    |-> book.title,
                   author       |-> book.author,
                   wordPosition |-> blank.wordIndex]
          ELSE contexts[j]]

initializeConversations(convs, newBlanks) ==
  LET ids == {newBlanks[k].index : k \in 1..Len(newBlanks)}
  IN [j \in DOMAIN convs \cup ids |-> IF j \in ids THEN <<>> ELSE convs[j]]

\* a variant that leaves the map as it is
keepConversations(map) == map

\* clearConversations, for each of the three maps
clearConversations(map) == emptyMap

(***************************************************************************)
(* The cloze of the current passage is installed: blanks, hints, text,     *)
(* empty answers, and a word context per blank.  contexts and convs are    *)
(* the maps of the chat service at that point.                             *)
(***************************************************************************)
installCloze(cloze, text, book, contexts, convs) ==
  /\ blanks' = cloze.blanks
  /\ hints' = cloze.hints
  /\ clozeText' = cloze.clozeText
  /\ userAnswers' = [k \in 1..Len(cloze.blanks) |-> ""]
  /\ wordContexts' = initializeWordContexts(contexts, cloze.blanks, text, book)
  /\ conversations' = initializeConversations(convs, cloze.blanks)

\* the sequential path: createClozeText, then generateContextualization,
\* which answers with a sentence about the book or with its template
sequentialSetup(text, book, level, contexts, convs) ==
  \E significant \in significantAnswers(book) :
    \E cloze \in sequentialClozes[book, significant, level] :
      /\ installCloze(cloze, text, book, contexts, convs)
      /\ selection' = sequentialSelections[book, significant, level]
      /\ chatLevel' = level
      /\ contextualization' = book.title

(***************************************************************************)
(* startNewRound, once both books have arrived: the batch request, and on  *)
(* its failure the sequential path, for the first passage.                 *)
(***************************************************************************)
\* a variant that stores the passage of the first book only
firstPassageOnly(book1, book2) == <<trimmedPassage[book1]>>

\* this.passages = [passage1.trim(), passage2.trim()]
roundPassages(book1, book2) == <<trimmedPassage[book1], trimmedPassage[book2]>>

startNewRound(book1, book2, level, contexts, convs) ==
  /\ currentBooks' = <<book1, book2>>
  /\ passages' = roundPassages(book1, book2)
  /\ currentPassageIndex' = 0
  /\ currentBook' = book1
  /\ originalText' = trimmedPassage[book1]
  /\ \E answer \in batchAnswers(book1, book2) :
       LET batchResult == processBothPassages(answer, book1, book2, level)
       IN \/ /\ batchResult.ok
             /\ preprocessedData' =
                  [passage1 |-> batchResult.passage1, passage2 |-> batchResult.passage2]
             /\ \E cloze \in preprocessedClozes[book1, batchResult.passage1.words, level] :
                  installCloze(cloze, trimmedPassage[book1], book1, contexts, convs)
             /\ selection' = preprocessedSelections[book1, batchResult.passage1.words, level]
             /\ batchFailed' = FALSE
             /\ contextualization' = batchResult.passage1.context
             /\ chatLevel' = chatLevel
          \/ /\ ~batchResult.ok
             /\ preprocessedData' = preprocessedData
             /\ batchFailed' = TRUE
             /\ sequentialSetup(trimmedPassage[book1], book1, level, contexts, convs)

roundSetupVars ==
  <<currentBooks, passages, currentPassageIndex, currentBook, originalText,
    preprocessedData, blanks, hints, clozeText, userAnswers, contextualization,
    chatLevel, selection>>

(***************************************************************************)
(* submitAnswers scores the typed answers against the current blanks.      *)
(***************************************************************************)
\* a variant that tolerates one miss for every total above 1
requiredOneMiss(totalBlanks) ==
  IF totalBlanks = 1 THEN 1 ELSE totalBlanks - 1

calculateRequiredCorrect(totalBlanks) ==
  IF totalBlanks = 1 THEN 1
  ELSE IF totalBlanks % 2 = 1 THEN totalBlanks - 1
  ELSE totalBlanks

\* Math.round((correctCount / total) * 100); 0 / 0 is NaN, written -1
scorePercentage(correctCount, total) ==
  IF total = 0 THEN -1 ELSE (200 * correctCount + total) \div (2 * total)

\* array[i] = v on a JavaScript array: the array grows, leaving holes
arraySet(array, i, v) ==
  [k \in 1..(IF Len(array) > i + 1 THEN Len(array) ELSE i + 1) |->
     IF k = i + 1 THEN v ELSE IF k <= Len(array) THEN array[k] ELSE NoValue]

\* a variant that never asks for the answers to be revealed
scoreWithoutReveal(answers, theBlanks, level) ==
  [correct             |-> 0,
   total               |-> Len(theBlanks),
   percentage          |-> 0,
   passed              |-> FALSE,
   results             |-> [k \in 1..Len(theBlanks) |->
                              [blankIndex    |-> k - 1,
                               userAnswer    |-> answers[k],
                               correctAnswer |-> theBlanks[k].originalWord,
                               isCorrect     |-> FALSE]],
   canAdvanceLevel     |-> FALSE,
   shouldRevealAnswers |-> FALSE,
   requiredCorrect     |-> calculateRequiredCorrect(Len(theBlanks)),
   currentLevel        |-> level]

scoreAnswers(answers, theBlanks, level) ==
  LET results ==
        [k \in 1..Len(theBlanks) |->
           [blankIndex    |-> k - 1,
            userAnswer    |-> answers[k],
            correctAnswer |-> theBlanks[k].originalWord,
            isCorrect     |-> toLowerCase(trim(answers[k]))
                                = toLowerCase(theBlanks[k].originalWord)]]
      correctCount == Cardinality({k \in 1..Len(theBlanks) : results[k].isCorrect})
      requiredCorrect == calculateRequiredCorrect(Len(theBlanks))
      passed == correctCount >= requiredCorrect
  IN [correct             |-> correctCount,
      total               |-> Len(theBlanks),
      percentage          |-> scorePercentage(correctCount, Len(theBlanks)),
      passed              |-> passed,
      results             |-> results,
      canAdvanceLevel     |-> passed,
      shouldRevealAnswers |-> ~passed,
      requiredCorrect     |-> requiredCorrect,
      currentLevel        |-> level]

\* every way of filling the blanks
answerLists(theBlanks) ==
  {a \in [1..Len(theBlanks) -> UNION {typedAnswers(theBlanks[k]) : k \in 1..Len(theBlanks)}] :
     \A k \in 1..Len(theBlanks) : a[k] \in typedAnswers(theBlanks[k])}

\* a variant that raises the level as soon as a passage is passed
SubmitAnswersAndAdvance ==
  /\ passages # <<>>
  /\ \E answers \in answerLists(blanks) :
       LET resultsData == scoreAnswers(answers, blanks, currentLevel)
       IN /\ userAnswers' = answers
          /\ score' = resultsData.percentage
          /\ lastResults' = resultsData
          /\ roundResults' = arraySet(roundResults, currentPassageIndex, resultsData)
          /\ currentLevel' = IF resultsData.passed THEN currentLevel + 1 ELSE currentLevel
  /\ lastOp' = "submitAnswers"
  /\ returned' = [ok |-> TRUE]
  /\ UNCHANGED <<currentBook, originalText, clozeText, blanks, currentRound,
                 contextualization, hints, currentBooks, passages,
                 currentPassageIndex, roundsPassedAtCurrentLevel, preprocessedData>>
  /\ UNCHANGED <<chatVars, roundPassed, passedRounds, upstream>>
  /\ UNCHANGED <<selectionVars, clientVars>>

SubmitAnswers ==
  /\ passages # <<>>
  /\ \E answers \in answerLists(blanks) :
       LET resultsData == scoreAnswers(answers, blanks, currentLevel)
       IN /\ userAnswers' = answers
          /\ score' = resultsData.percentage
          /\ lastResults' = resultsData
          /\ roundResults' = arraySet(roundResults, currentPassageIndex, resultsData)
  /\ lastOp' = "submitAnswers"
  /\ returned' = [ok |-> TRUE]
  /\ UNCHANGED <<currentBook, originalText, clozeText, blanks, currentRound,
                 currentLevel, contextualization, hints, currentBooks, passages,
                 currentPassageIndex, roundsPassedAtCurrentLevel, preprocessedData>>
  /\ UNCHANGED <<chatVars, roundPassed, passedRounds, upstream>>
  /\ UNCHANGED <<selectionVars, clientVars>>

(***************************************************************************)
(* nextRound closes the round: its verdict on the round, the round         *)
(* counter, the pass counter and the level, the hint tracker and the       *)
(* results cleared, and then startNewRound, whose book requests may fail.  *)
(***************************************************************************)
\* a variant that falls back on the verdict of the round closed before
verdictRemembered(results, last) ==
  IF Len(results) = 2
    THEN \E k \in 1..Len(results) : results[k] # NoValue /\ results[k].passed
  ELSE IF last # NoValue THEN last.passed
  ELSE roundPassed

nextRoundVerdict(results, last) ==
  IF Len(results) = 2
    THEN \E k \in 1..Len(results) : results[k] # NoValue /\ results[k].passed
  ELSE IF last # NoValue THEN last.passed
  ELSE FALSE

\* variants of the counter logic: a level for every passed round; a counter
\* that is never reset; a failed round that costs the accumulated pass
levelEveryPass(verdict, level, passes) ==
  IF verdict THEN level + 1 ELSE level

passesNeverReset(verdict, level, passes) ==
  IF verdict THEN passes + 1 ELSE passes

passesLostOnFail(verdict, level, passes) ==
  IF verdict THEN (IF passes + 1 >= 2 THEN 0 ELSE passes + 1) ELSE 0

\* the level and the pass counter after a round with the given verdict
levelAfter(verdict, level, passes) ==
  IF verdict /\ passes + 1 >= 2 THEN level + 1 ELSE level

passesAfter(verdict, level, passes) ==
  IF verdict THEN (IF passes + 1 >= 2 THEN 0 ELSE passes + 1) ELSE passes

nextRound ==
  LET verdict == nextRoundVerdict(roundResults, lastResults)
      level == levelAfter(verdict, currentLevel, roundsPassedAtCurrentLevel)
  IN /\ currentRound < MaxRound
     /\ currentRound' = currentRound + 1
     /\ currentLevel' = level
     /\ roundsPassedAtCurrentLevel' =
          passesAfter(verdict, currentLevel, roundsPassedAtCurrentLevel)
     /\ blankQuestions' = clearConversations(blankQuestions)
     /\ lastResults' = NoValue
     /\ roundResults' = <<>>
     /\ roundPassed' = verdict
     /\ passedRounds' = IF verdict THEN passedRounds + 1 ELSE passedRounds
     /\ lastOp' = "nextRound"
     /\ UNCHANGED <<score, upstream, clientVars>>
     /\ \/ \E pair \in BookPairs :
             /\ startNewRound(pair[1], pair[2], level, clearConversations(wordContexts),
                              clearConversations(conversations))
             /\ returned' = [ok |-> TRUE]
        \/ \* getBookByLevelCriteria fails: startNewRound throws at once
           /\ conversations' = clearConversations(conversations)
           /\ wordContexts' = clearConversations(wordContexts)
           /\ returned' = Throw
           /\ batchFailed' = FALSE
           /\ UNCHANGED roundSetupVars

NextRound ==
  /\ passages # <<>>
  /\ nextRound

(***************************************************************************)
(* nextPassage moves to the second passage of the round, or, when the      *)
(* second passage is the current one, on to the next round.                *)
(***************************************************************************)
NextPassage ==
  /\ passages # <<>>
  /\ IF currentPassageIndex = 0 /\ Len(passages) > 1
       THEN /\ currentPassageIndex' = 1
            /\ currentBook' = currentBooks[2]
            /\ originalText' = passages[2]
            /\ blankQuestions' = clearConversations(blankQuestions)
            /\ lastResults' = NoValue
            /\ IF preprocessedData # NoValue
                 THEN /\ \E cloze \in preprocessedClozes[currentBooks[2],
                                        preprocessedData.passage2.words, currentLevel] :
                           installCloze(cloze, passages[2], currentBooks[2],
                                        clearConversations(wordContexts),
                                        clearConversations(conversations))
                      /\ selection' = preprocessedSelections[currentBooks[2],
                                         preprocessedData.passage2.words, currentLevel]
                      /\ contextualization' = preprocessedData.passage2.context
                      /\ chatLevel' = chatLevel
                 ELSE sequentialSetup(passages[2], currentBooks[2], currentLevel,
                                      clearConversations(wordContexts),
                                      clearConversations(conversations))
            /\ lastOp' = "nextPassage"
            /\ returned' = [ok |-> TRUE]
            /\ UNCHANGED <<score, currentRound, currentLevel, roundResults,
                           currentBooks, passages, roundsPassedAtCurrentLevel,
                           preprocessedData, roundPassed, passedRounds, upstream,
                           batchFailed, clientVars>>
       ELSE nextRound

(***************************************************************************)
(* The first round, started by the application once the game is created.   *)
(***************************************************************************)
StartNewGame ==
  /\ passages = <<>>
  /\ lastOp' = "startNewRound"
  /\ \/ \E pair \in BookPairs :
          /\ startNewRound(pair[1], pair[2], currentLevel, wordContexts, conversations)
          /\ returned' = [ok |-> TRUE]
     \/ /\ returned' = Throw
        /\ batchFailed' = FALSE
        /\ UNCHANGED <<roundSetupVars, conversations, wordContexts>>
  /\ UNCHANGED <<score, currentRound, currentLevel, lastResults, roundResults,
                 roundsPassedAtCurrentLevel, blankQuestions, roundPassed,
                 passedRounds, upstream, clientVars>>

Next ==
  \/ StartNewGame
  \/ SubmitAnswers
  \/ NextPassage
  \/ NextRound

Spec == Init /\ [][Next]_vars

\* getCurrentAnswers: the answers of the current passage, once submitted
getCurrentAnswers(last, theBlanks) ==
  IF last = NoValue THEN NoValue
  ELSE [hasResults          |-> TRUE,
        passed              |-> last.passed,
        shouldRevealAnswers |-> last.shouldRevealAnswers,
        currentLevel        |-> last.currentLevel,
        requiredCorrect     |-> last.requiredCorrect,
        answers |->
          [k \in 1..Len(theBlanks) |->
             LET has == theBlanks[k].index + 1 \in 1..Len(last.results)
             IN [index         |-> theBlanks[k].index,
                 correctAnswer |-> theBlanks[k].originalWord,
                 userAnswer    |-> IF has THEN last.results[theBlanks[k].index + 1].userAnswer
                                   ELSE "",
                 isCorrect     |-> has /\ last.results[theBlanks[k].index + 1].isCorrect]]]

(***************************************************************************)
(* The cloze construction on its own: a game that has reached some level,  *)
(* every round so far passed, has the passage of a book of the corpus at   *)
(* hand; one of the two constructions is applied to it, and the player     *)
(* submits answers.                                                        *)
(***************************************************************************)
InitCloze ==
  /\ \E book \in Library :
       /\ currentBook = book
       /\ currentBooks = <<book, book>>
       /\ originalText = trim(passageOf(book))
       /\ passages = <<trim(passageOf(book)), trim(passageOf(book))>>
  /\ \E level \in 1..MaxLevel :
       /\ currentLevel = level
       /\ chatLevel = level
       /\ passedRounds = 2 * (level - 1)
       /\ currentRound = 2 * level - 1
  /\ clozeText = <<>>
  /\ blanks = <<>>
  /\ userAnswers = <<>>
  /\ score = 0
  /\ contextualization = ""
  /\ hints = <<>>
  /\ lastResults = NoValue
  /\ roundResults = <<>>
  /\ currentPassageIndex = 0
  /\ roundsPassedAtCurrentLevel = 0
  /\ preprocessedData = NoValue
  /\ conversations = <<>>
  /\ wordContexts = <<>>
  /\ blankQuestions = <<>>
  /\ lastOp = "extractCoherentPassage"
  /\ returned = [ok |-> TRUE]
  /\ roundPassed = (currentLevel > 1)
  /\ upstream = NoValue
  /\ selection = NoValue
  /\ batchFailed = FALSE
  /\ request = NoValue
  /\ extraction = NoValue

clozeFrame ==
  <<currentBook, originalText, score, currentRound, currentLevel, lastResults,
    roundResults, currentBooks, passages, currentPassageIndex,
    roundsPassedAtCurrentLevel, preprocessedData, blankQuestions, roundPassed,
    passedRounds, upstream, batchFailed, clientVars>>

ClozeFromPreprocessed ==
  /\ lastOp = "extractCoherentPassage"
  /\ \E words \in ClozeWordLists :
       /\ \E cloze \in createClozeTextFromPreprocessed(originalText, words, currentLevel) :
            installCloze(cloze, originalText, currentBook, wordContexts, conversations)
       /\ selection' = preprocessedSelection(originalText, words, currentLevel)
  /\ lastOp' = "createClozeTextFromPreprocessed"
  /\ returned' = [ok |-> TRUE, blanks |-> preprocessedExpectedBlanks(currentLevel)]
  /\ UNCHANGED <<clozeFrame, contextualization, chatLevel>>

ClozeFromText ==
  /\ lastOp = "extractCoherentPassage"
  /\ \E answer \in {Throw} \cup {[ok |-> TRUE, words |-> w] : w \in ClozeWordLists} :
       LET significant == selectSignificantWords(answer,
                            createClozeTextBlanks(currentLevel), currentLevel)
       IN /\ \E cloze \in createClozeText(originalText, significant, currentLevel) :
               installCloze(cloze, originalText, currentBook, wordContexts, conversations)
          /\ selection' = clozeTextSelection(originalText, significant, currentLevel)
  /\ chatLevel' = currentLevel
  /\ lastOp' = "createClozeText"
  /\ returned' = [ok |-> TRUE, blanks |-> createClozeTextBlanks(currentLevel)]
  /\ UNCHANGED <<clozeFrame, contextualization>>

SubmitCloze ==
  /\ lastOp # "extractCoherentPassage"
  /\ SubmitAnswers

NextCloze ==
  \/ ClozeFromPreprocessed
  \/ ClozeFromText
  \/ SubmitCloze

SpecCloze == InitCloze /\ [][NextCloze]_vars

(***************************************************************************)
(* generateContextualHint: what the client returns for each thing the      *)
(* service can do.  An outcome names what happened and, when a message     *)
(* arrived, its content.                                                   *)
(***************************************************************************)
Quotes == {"\"", "'"}

\* the first alternative of /^\s*["']|["']\s*$/g
stripLeadQuote(s) ==
  LET t == trimStart(s)
  IN IF t # "" /\ Head(t) \in Quotes THEN Tail(t) ELSE s

\* its second alternative
stripTrailQuote(s) ==
  LET t == trimEnd(s)
  IN IF t # "" /\ Ch(t, Len(t)) \in Quotes THEN SubSeq(t, 1, Len(t) - 1) ELSE s

RECURSIVE dropColons(_)
dropColons(s) == IF s # "" /\ Head(s) \in {":", ";"} THEN dropColons(Tail(s)) ELSE s

\* s.replace(/^\s*[:;]+\s*/, '')
stripLeadingColons(s) ==
  LET t == trimStart(s)
  IN IF t # "" /\ Head(t) \in {":", ";"} THEN trimStart(dropColons(t)) ELSE s

\* s.replace(/c+/g, '') for a character c
RECURSIVE removeChar(_, _)
removeChar(s, c) ==
  IF s = "" THEN ""
  ELSE (IF Head(s) = c THEN "" ELSE Head(s)) \o removeChar(Tail(s), c)

RECURSIVE dropHashes(_)
dropHashes(s) == IF s # "" /\ Head(s) = "#" THEN dropHashes(Tail(s)) ELSE s

\* s.replace(/#+\s*/g, '')
RECURSIVE removeHashes(_)
removeHashes(s) ==
  IF s = "" THEN ""
  ELSE IF Head(s) = "#" THEN removeHashes(trimStart(dropHashes(s)))
  ELSE Head(s) \o removeHashes(Tail(s))

\* s.replace(/\s+/g, ' ')
RECURSIVE collapseWhitespace(_)
collapseWhitespace(s) ==
  IF s = "" THEN ""
  ELSE IF IsSpace(Head(s)) THEN " " \o collapseWhitespace(trimStart(s))
  ELSE Head(s) \o collapseWhitespace(Tail(s))

cleanHint(content) ==
  trim(collapseWhitespace(removeHashes(removeChar(removeChar(
    stripLeadingColons(stripTrailQuote(stripLeadQuote(trim(content)))), "*"), "_"))))

\* messages the service may send: a clean hint, hints that name the word or
\* a stem of it, a short one, an empty one
HintContents ==
  {"It tells how an action is done, without any hurry.",
   "** The word is: slowly **",
   "\"Garden\" is a place where plants grow.",
   "Someone who did not leave chose to stay here.",
   "Adverb.",
   "   "}

FailureKinds ==
  {"noKey", "fetchRejected", "httpError", "badJson", "noChoices", "noContent"}

HintOutcomes ==
  {[kind |-> k, content |-> ""] : k \in FailureKinds}
    \cup {[kind |-> "content", content |-> c] : c \in HintContents}

generateContextualHint(outcome) ==
  IF outcome.kind = "noKey" THEN "API key required for hints"
  ELSE IF outcome.kind \in {"fetchRejected", "httpError", "badJson"}
    THEN "Unable to generate hint at this time"
  ELSE IF outcome.kind = "noChoices" THEN "Unable to generate hint at this time"
  ELSE IF outcome.kind = "noContent" \/ outcome.content = ""
    THEN "Unable to generate hint at this time"
  ELSE cleanHint(outcome.content)

\* the client's answer to each outcome, computed once
hintOf == [outcome \in HintOutcomes |-> generateContextualHint(outcome)]

(***************************************************************************)
(* ChatService: the questions, the fallback, the scrub and askQuestion.    *)
(***************************************************************************)
questions == <<"part_of_speech", "sentence_role", "word_category", "synonym">>

\* the canned answer to a question type
fallbacks(questionType) ==
  IF questionType = "part_of_speech"
    THEN "Look at the surrounding words. Is it describing something, showing action, or naming something?"
  ELSE IF questionType = "sentence_role"
    THEN "Consider how this word connects to the other parts of the sentence."
  ELSE IF questionType = "word_category"
    THEN "Think about whether this represents something concrete or an abstract idea."
  ELSE IF questionType = "synonym"
    THEN "What other word could fit in this same spot with similar meaning?"
  ELSE "Consider the context and what word would make sense here."

getEnhancedFallback(questionType, word, sentence, bookTitle) == fallbacks(questionType)

getSimpleFallback(context, questionType) ==
  getEnhancedFallback(questionType, context.targetWord, context.sentence,
                      context.bookTitle)

generateSpecificResponse(context, questionType, outcome) ==
  LET aiResponse == hintOf[outcome]
  IN IF aiResponse # "" /\ Len(aiResponse) > 10
       THEN aiResponse
       ELSE getEnhancedFallback(questionType, context.targetWord, context.sentence,
                                context.bookTitle)

\* word.slice(0, -n)
sliceOff(word, n) == SubSeq(word, 1, Len(word) - n)

generateWordVariations(word) ==
  <<toLowerCase(word)>>
    \o (IF endsWith(word, "ing") THEN <<sliceOff(word, 3)>> ELSE <<>>)
    \o (IF endsWith(word, "ed") THEN <<sliceOff(word, 2)>> ELSE <<>>)
    \o (IF endsWith(word, "s") THEN <<sliceOff(word, 1)>> ELSE <<>>)

\* \b at position p: between a word character and something else
wordCharAt(s, p) == p >= 1 /\ p <= Len(s) /\ IsWordChar(Ch(s, p))

boundaryAt(s, p) == wordCharAt(s, p - 1) # wordCharAt(s, p)

\* new RegExp(`\\b${variation}\\b`, 'gi') matches at position i
matchesAt(s, variation, i) ==
  /\ i + Len(variation) - 1 <= Len(s)
  /\ toLowerCase(SubSeq(s, i, i + Len(variation) - 1)) = toLowerCase(variation)
  /\ boundaryAt(s, i)
  /\ boundaryAt(s, i + Len(variation))

RECURSIVE replaceWord(_, _, _)
replaceWord(s, variation, i) ==
  IF i > Len(s) + 1 THEN ""
  ELSE LET here == IF i <= Len(s) THEN Ch(s, i) ELSE ""
       IN IF matchesAt(s, variation, i)
            THEN "[the word]" \o
                 (IF Len(variation) = 0 THEN here \o replaceWord(s, variation, i + 1)
                  ELSE replaceWord(s, variation, i + Len(variation)))
            ELSE here \o replaceWord(s, variation, i + 1)

RECURSIVE replaceVariations(_, _, _)
replaceVariations(s, variations, k) ==
  IF k > Len(variations) THEN s
  ELSE replaceVariations(replaceWord(s, variations[k], 1), variations, k + 1)

processAIResponse(rawResponse, targetWord) ==
  replaceVariations(trim(rawResponse), generateWordVariations(targetWord), 1)

getSuggestedQuestions(used, blankId) ==
  [k \in 1..Len(questions) |->
     [type |-> questions[k],
      used |-> blankId \in DOMAIN used /\ questions[k] \in used[blankId]]]

\* askQuestion, reached through askQuestionAboutBlank, the hint request
\* ending in one of the outcomes
askQuestion(outcomes) ==
  /\ passages # <<>>
  /\ \E blankId \in 0..Len(blanks), questionType \in Range(questions),
        outcome \in outcomes :
       IF blankId \notin DOMAIN wordContexts
         THEN /\ returned' = [ok |-> TRUE, error |-> TRUE,
                              message |-> "Context not found for this word."]
              /\ upstream' = NoValue
              /\ UNCHANGED blankQuestions
         ELSE /\ blankQuestions' =
                   mapSet(blankQuestions, blankId,
                          (IF blankId \in DOMAIN blankQuestions
                             THEN blankQuestions[blankId] ELSE {}) \cup {questionType})
              /\ returned' =
                   [ok |-> TRUE, success |-> TRUE,
                    response |-> generateSpecificResponse(wordContexts[blankId],
                                                          questionType, outcome),
                    questionType |-> questionType]
              /\ upstream' = [kind |-> outcome.kind, content |-> outcome.content,
                               blankId |-> blankId]
  /\ lastOp' = "askQuestion"
  /\ UNCHANGED <<engineVars, conversations, wordContexts, chatLevel, roundPassed,
                 passedRounds, selectionVars, clientVars>>

AskQuestion == askQuestion(HintOutcomes)

\* getSuggestedQuestions, reached through getSuggestedQuestionsForBlank
GetSuggestedQuestions ==
  /\ passages # <<>>
  /\ \E blankId \in 0..Len(blanks) :
       returned' = [ok |-> TRUE,
                    suggested |-> getSuggestedQuestions(blankQuestions, blankId)]
  /\ lastOp' = "getSuggestedQuestions"
  /\ UNCHANGED <<engineVars, chatVars, roundPassed, passedRounds, upstream,
                 selectionVars, clientVars>>

\* the first round of a game and the questions asked about its blanks
NextChat ==
  \/ StartNewGame
  \/ AskQuestion

SpecChat == Init /\ [][NextChat]_vars

\* the whole game with its hints, followed until MaxHintRounds rounds are
\* closed
GameHintOutcomes ==
  {[kind |-> "fetchRejected", content |-> ""],
   [kind |-> "content", content |-> "Adverb."]}

\* the question types marked as used, over all the blanks of the passage
usedQuestions ==
  {pair \in (DOMAIN blankQuestions) \X Range(questions) :
     pair[2] \in blankQuestions[pair[1]]}

\* at most MaxHints question types are used up on one passage
HintsAskQuestion ==
  /\ Cardinality(usedQuestions) < MaxHints
  /\ askQuestion(GameHintOutcomes)

HintsNextPassage ==
  /\ currentRound <= MaxHintRounds
  /\ NextPassage

HintsNextRound ==
  /\ currentRound <= MaxHintRounds
  /\ NextRound

NextHints ==
  \/ StartNewGame
  \/ SubmitAnswers
  \/ HintsAskQuestion
  \/ GetSuggestedQuestions
  \/ HintsNextPassage
  \/ HintsNextRound

SpecHints == Init /\ [][NextHints]_vars

(***************************************************************************)
(* The word requests on their own: a game that has reached some level      *)
(* receives an answer of the service; processBothPassages or               *)
(* selectSignificantWords makes its result of it.                          *)
(***************************************************************************)
\* word lists as they can stand in an answer: words too short and too long,
\* a word of the denylist, bare and dressed, an empty string
RawWordLists ==
  {<<>>, <<"garden">>, <<"sky", "garden">>, <<"savage">>, <<"Savage!", "slowly">>,
   <<"extraordinarily">>, <<"", "quietly">>}

RawWordLists2 == {<<"stayed">>, <<"sky">>}

\* the request fails, or its answer parses as JSON, or its answer is
\* malformed and the words are recovered by the regular expressions
WordReplies ==
  {Throw} \cup
  {[ok |-> TRUE, parsed |-> p, words1 |-> w1, words2 |-> w2] :
     p \in BOOLEAN, w1 \in RawWordLists, w2 \in RawWordLists2}

InitWords ==
  /\ \E level \in 1..MaxLevel :
       /\ currentLevel = level
       /\ chatLevel = level
       /\ passedRounds = 2 * (level - 1)
       /\ currentRound = 2 * level - 1
  /\ \E pair \in BookPairs :
       /\ currentBooks = <<pair[1], pair[2]>>
       /\ passages = <<trimmedPassage[pair[1]], trimmedPassage[pair[2]]>>
       /\ currentBook = pair[1]
       /\ originalText = trimmedPassage[pair[1]]
  /\ upstream \in WordReplies
  /\ clozeText = <<>>
  /\ blanks = <<>>
  /\ userAnswers = <<>>
  /\ score = 0
  /\ contextualization = ""
  /\ hints = <<>>
  /\ lastResults = NoValue
  /\ roundResults = <<>>
  /\ currentPassageIndex = 0
  /\ roundsPassedAtCurrentLevel = 0
  /\ preprocessedData = NoValue
  /\ conversations = <<>>
  /\ wordContexts = <<>>
  /\ blankQuestions = <<>>
  /\ lastOp = "fetch"
  /\ returned = [ok |-> TRUE]
  /\ roundPassed = (currentLevel > 1)
  /\ selection = NoValue
  /\ batchFailed = FALSE
  /\ request = NoValue
  /\ extraction = NoValue

wordsFrame ==
  <<engineVars, chatVars, roundPassed, passedRounds, upstream, selectionVars,
    clientVars>>

ProcessBothPassages ==
  /\ lastOp = "fetch"
  /\ returned' = processBothPassages(upstream, currentBooks[1], currentBooks[2],
                                     currentLevel)
  /\ lastOp' = "processBothPassages"
  /\ UNCHANGED wordsFrame

SelectSignificantWords ==
  /\ lastOp = "fetch"
  /\ returned' =
       selectSignificantWords(
         IF upstream.ok THEN [ok |-> TRUE, words |-> upstream.words1] ELSE Throw,
         createClozeTextBlanks(currentLevel), currentLevel)
  /\ lastOp' = "selectSignificantWords"
  /\ UNCHANGED wordsFrame

NextWords ==
  \/ ProcessBothPassages
  \/ SelectSignificantWords

SpecWords == InitWords /\ [][NextWords]_vars

(***************************************************************************)
(* The batch answer as text.  The content of the message is held as the    *)
(* sequence of its JSON tokens, white space left out: the punctuation      *)
(* marks, and the strings with their quotes; a string that the answer      *)
(* breaks off in has no closing quote.  The answers listed carry no code   *)
(* fences, so the fence patterns of processBothPassages change nothing.    *)
(***************************************************************************)
isStringToken(token) ==
  Len(token) >= 2 /\ Ch(token, 1) = "\"" /\ Ch(token, Len(token)) = "\""

stringText(token) == SubSeq(token, 2, Len(token) - 1)

\* const name = value; rest(name): the value is computed once
Bind(value, rest(_)) == CHOOSE result \in {rest(name) : name \in {value}} : TRUE

\* the repairs made before JSON.parse: a comma before ']' is dropped, an odd
\* number of quotes is evened by a quote at the end, missing closing braces
\* are appended, and what follows the last closing brace is cut
repairJson(tokens) ==
  Bind(SelectSeq([i \in 1..Len(tokens) |->
                    IF tokens[i] = "," /\ i < Len(tokens) /\ tokens[i + 1] = "]"
                      THEN "" ELSE tokens[i]],
                 LAMBDA t : t # ""),
       LAMBDA noArrayCommas :
  Bind(Cardinality(UNION {{<<i, j>> : j \in {h \in 1..Len(noArrayCommas[i]) :
                                               Ch(noArrayCommas[i], h) = "\""}} :
                            i \in 1..Len(noArrayCommas)}),
       LAMBDA quoteCount :
  Bind(IF quoteCount % 2 = 0 THEN noArrayCommas
       ELSE IF Len(noArrayCommas) > 0
                 /\ Ch(noArrayCommas[Len(noArrayCommas)], 1) = "\""
                 /\ ~isStringToken(noArrayCommas[Len(noArrayCommas)])
         THEN [noArrayCommas EXCEPT ![Len(noArrayCommas)] = @ \o "\""]
       ELSE Append(noArrayCommas, "\""),
       LAMBDA quoted :
  Bind(Cardinality({i \in 1..Len(quoted) : quoted[i] = "{"})
         - Cardinality({i \in 1..Len(quoted) : quoted[i] = "}"}),
       LAMBDA missingBraces :
  Bind(IF missingBraces > 0
         THEN quoted \o [k \in 1..missingBraces |-> "}"] ELSE quoted,
       LAMBDA braced :
  Bind({i \in 1..Len(braced) : braced[i] = "}"},
       LAMBDA braces :
  Bind(IF braces = {} THEN -1 ELSE CHOOSE i \in braces : \A j \in braces : j <= i,
       LAMBDA lastBrace :
         IF lastBrace # -1 /\ lastBrace < Len(braced)
           THEN SubSeq(braced, 1, lastBrace) ELSE braced)))))))

\* JSON.parse over the tokens: a value is a string, an array of values or an
\* object of members; a comma must be followed by a further item or member
RECURSIVE parseValue(_, _)
RECURSIVE parseItems(_, _, _)
RECURSIVE parseMembers(_, _, _)
parseValue(tokens, i) ==
  IF i > Len(tokens) THEN Throw
  ELSE IF isStringToken(tokens[i])
    THEN [ok |-> TRUE, next |-> i + 1,
          value |-> [kind |-> "string", text |-> stringText(tokens[i])]]
  ELSE IF tokens[i] = "["
    THEN IF i < Len(tokens) /\ tokens[i + 1] = "]"
           THEN [ok |-> TRUE, next |-> i + 2,
                 value |-> [kind |-> "array", items |-> <<>>]]
           ELSE parseItems(tokens, i + 1, <<>>)
  ELSE IF tokens[i] = "{"
    THEN IF i < Len(tokens) /\ tokens[i + 1] = "}"
           THEN [ok |-> TRUE, next |-> i + 2,
                 value |-> [kind |-> "object", members |-> <<>>]]
           ELSE parseMembers(tokens, i + 1, <<>>)
  ELSE Throw

parseItems(tokens, i, items) ==
  Bind(parseValue(tokens, i), LAMBDA item :
    IF ~item.ok THEN Throw
    ELSE IF item.next > Len(tokens) THEN Throw
    ELSE Bind(Append(items, item.value), LAMBDA all :
      IF tokens[item.next] = "," THEN parseItems(tokens, item.next + 1, all)
      ELSE IF tokens[item.next] = "]"
        THEN [ok |-> TRUE, next |-> item.next + 1,
              value |-> [kind |-> "array", items |-> all]]
      ELSE Throw))

parseMembers(tokens, i, members) ==
  IF i + 2 > Len(tokens) THEN Throw
  ELSE IF ~isStringToken(tokens[i]) \/ tokens[i + 1] # ":" THEN Throw
  ELSE Bind(parseValue(tokens, i + 2), LAMBDA member :
    IF ~member.ok THEN Throw
    ELSE IF member.next > Len(tokens) THEN Throw
    ELSE Bind(Append(members, [key |-> stringText(tokens[i]),
                               value |-> member.value]), LAMBDA all :
      IF tokens[member.next] = "," THEN parseMembers(tokens, member.next + 1, all)
      ELSE IF tokens[member.next] = "}"
        THEN [ok |-> TRUE, next |-> member.next + 1,
              value |-> [kind |-> "object", members |-> all]]
      ELSE Throw))

jsonParse(tokens) ==
  Bind(parseValue(tokens, 1), LAMBDA parsed :
    IF ~parsed.ok THEN Throw
    ELSE IF parsed.next = Len(tokens) + 1 THEN parsed ELSE Throw)

\* value[key]: the member of that name that comes last, or undefined
memberOf(value, key) ==
  IF value = NoValue THEN NoValue
  ELSE IF value.kind # "object" THEN NoValue
  ELSE Bind({k \in 1..Len(value.members) : value.members[k].key = key}, LAMBDA at :
         IF at = {} THEN NoValue
         ELSE value.members[CHOOSE k \in at : \A j \in at : j <= k].value)

\* the words of a passage of the parsed answer: [] when words is no array;
\* the empty strings are dropped; an item that is no string makes
\* word.trim() throw
parsedWords(passage) ==
  Bind(memberOf(passage, "words"), LAMBDA words :
    IF words = NoValue THEN [ok |-> TRUE, words |-> <<>>]
    ELSE IF words.kind # "array" THEN [ok |-> TRUE, words |-> <<>>]
    ELSE IF \E k \in 1..Len(words.items) : words.items[k].kind # "string"
      THEN Throw
    ELSE [ok |-> TRUE,
          words |-> SelectSeq([k \in 1..Len(words.items) |-> words.items[k].text],
                              LAMBDA w : trim(w) # "")])

\* content.match(/"words":\s*\[([^\]]+)\]/), looked for from token number from
\* on: what stands between the brackets, or null
wordsMatch(tokens, from) ==
  Bind(firstOf({i \in from..(Len(tokens) - 4) :
                  /\ tokens[i] = "\"words\""
                  /\ tokens[i + 1] = ":"
                  /\ tokens[i + 2] = "["
                  /\ tokens[i + 3] # "]"
                  /\ \E j \in (i + 4)..Len(tokens) : tokens[j] = "]"}),
       LAMBDA start :
         IF start = -1 THEN NoValue
         ELSE [group |->
                 SubSeq(tokens, start + 3,
                        firstOf({j \in (start + 4)..Len(tokens) : tokens[j] = "]"}) - 1)])

\* extractWords: JSON.parse of the bracketed group, or else its pieces
\* between commas, with the quotes removed
extractWords(match) ==
  IF match = NoValue THEN <<>>
  ELSE Bind(jsonParse(<<"[">> \o match.group \o <<"]">>), LAMBDA parsed :
    IF parsed.ok
      THEN [k \in 1..Len(parsed.value.items) |->
              IF parsed.value.items[k].kind = "string"
                THEN parsed.value.items[k].text ELSE ""]
      ELSE Bind(<<0>> \o sortedSeq({i \in 1..Len(match.group) : match.group[i] = ","})
                  \o <<Len(match.group) + 1>>,
                LAMBDA cuts :
                  [k \in 1..(Len(cuts) - 1) |->
                     IF cuts[k] + 1 > cuts[k + 1] - 1 THEN ""
                     ELSE removeChar(removeChar(
                            IF cuts[k] + 1 = cuts[k + 1] - 1
                              THEN match.group[cuts[k] + 1]
                              ELSE match.group[cuts[k] + 1]
                                     \o match.group[cuts[k + 1] - 1],
                            "\""), "'")]))

\* what processBothPassages makes of the content of the message: the repaired
\* text parses and has both passages, or the words are recovered from the
\* content by the regular expressions
batchAnswer(tokens) ==
  Bind(repairJson(tokens), LAMBDA jsonString :
  Bind(jsonParse(jsonString), LAMBDA parsed :
  Bind(IF parsed.ok THEN memberOf(parsed.value, "passage1") ELSE NoValue,
       LAMBDA passage1 :
  Bind(IF parsed.ok THEN memberOf(parsed.value, "passage2") ELSE NoValue,
       LAMBDA passage2 :
  Bind(IF passage1 = NoValue THEN Throw
       ELSE IF passage2 = NoValue THEN Throw ELSE parsedWords(passage1),
       LAMBDA words1 :
  Bind(IF words1.ok THEN parsedWords(passage2) ELSE Throw,
       LAMBDA words2 :
  Bind(firstOf({i \in 1..Len(tokens) : tokens[i] = "\"passage2\""}),
       LAMBDA passage2At :
         IF words2.ok
           THEN [ok |-> TRUE, parsed |-> TRUE,
                 words1 |-> words1.words, words2 |-> words2.words]
           ELSE [ok |-> TRUE, parsed |-> FALSE,
                 words1 |-> extractWords(wordsMatch(tokens, 1)),
                 words2 |-> IF passage2At = -1 THEN <<>>
                            ELSE extractWords(wordsMatch(tokens, passage2At + 1))])))))))

\* the text of a batch answer: the two word lists with a context each, and
\* the places where a comma stands before a closing bracket or brace
batchContent(words1, words2, commas) ==
  LET list(words) ==
        IF Len(words) = 0 THEN <<>>
        ELSE [k \in 1..(2 * Len(words) - 1) |->
                IF k % 2 = 1 THEN "\"" \o words[(k + 1) \div 2] \o "\"" ELSE ","]
               \o (IF commas.array THEN <<",">> ELSE <<>>)
      passage(words) ==
        <<"{", "\"words\"", ":", "[">> \o list(words)
          \o <<"]", ",", "\"context\"", ":", "\"A walk\"">>
          \o (IF commas.inner THEN <<",">> ELSE <<>>) \o <<"}">>
  IN <<"{", "\"passage1\"", ":">> \o passage(words1)
       \o <<",", "\"passage2\"", ":">> \o passage(words2)
       \o (IF commas.outer THEN <<",">> ELSE <<>>) \o <<"}">>

NormalWordLists == {<<"garden", "slowly">>, <<"garden">>, <<>>}

NormalWordLists2 == {<<"stayed", "quietly">>, <<"stayed">>}

CommaPlaces == [array : BOOLEAN, inner : BOOLEAN, outer : BOOLEAN]

\* the answers of the service: well-formed, with trailing commas, and broken
\* off after a token or within a string
BatchResponses ==
  {[tokens |-> batchContent(w1, w2, commas), words1 |-> w1, words2 |-> w2,
    defects |-> IF \E place \in {"array", "inner", "outer"} : commas[place]
                  THEN "trailingCommas" ELSE "none",
    commas |-> commas] :
     w1 \in NormalWordLists, w2 \in NormalWordLists2, commas \in CommaPlaces}
  \cup
  UNION {LET whole == batchContent(w1, <<"stayed">>,
                                   [array |-> FALSE, inner |-> FALSE, outer |-> FALSE])
         IN {[tokens |-> IF cut /\ isStringToken(whole[n])
                           THEN [SubSeq(whole, 1, n) EXCEPT
                                   ![n] = SubSeq(@, 1, Len(@) - 1)]
                           ELSE SubSeq(whole, 1, n),
              words1 |-> w1, words2 |-> <<"stayed">>, defects |-> "truncated",
              commas |-> [array |-> FALSE, inner |-> FALSE, outer |-> FALSE]] :
               n \in 1..(Len(whole) - 1), cut \in BOOLEAN}
         : w1 \in NormalWordLists}

\* what is made of each answer, computed once per answer
batchAnswerOf ==
  [tokens \in {response.tokens : response \in BatchResponses} |-> batchAnswer(tokens)]

InitNormalize ==
  /\ \E level \in 1..MaxLevel :
       /\ currentLevel = level
       /\ chatLevel = level
       /\ passedRounds = 2 * (level - 1)
       /\ currentRound = 2 * level - 1
  /\ \E pair \in BookPairs :
       /\ currentBooks = <<pair[1], pair[2]>>
       /\ passages = <<trimmedPassage[pair[1]], trimmedPassage[pair[2]]>>
       /\ currentBook = pair[1]
       /\ originalText = trimmedPassage[pair[1]]
  /\ upstream \in BatchResponses
  /\ clozeText = <<>>
  /\ blanks = <<>>
  /\ userAnswers = <<>>
  /\ score = 0
  /\ contextualization = ""
  /\ hints = <<>>
  /\ lastResults = NoValue
  /\ roundResults = <<>>
  /\ currentPassageIndex = 0
  /\ roundsPassedAtCurrentLevel = 0
  /\ preprocessedData = NoValue
  /\ conversations = <<>>
  /\ wordContexts = <<>>
  /\ blankQuestions = <<>>
  /\ lastOp = "fetch"
  /\ returned = [ok |-> TRUE]
  /\ roundPassed = (currentLevel > 1)
  /\ selection = NoValue
  /\ batchFailed = FALSE
  /\ request = NoValue
  /\ extraction = NoValue

\* processBothPassages on the content of the message that arrived
NormalizeBatchResponse ==
  /\ lastOp = "fetch"
  /\ returned' = processBothPassages(batchAnswerOf[upstream.tokens], currentBooks[1],
                                     currentBooks[2], currentLevel)
  /\ lastOp' = "processBothPassages"
  /\ UNCHANGED wordsFrame

NextNormalize == NormalizeBatchResponse

SpecNormalize == InitNormalize /\ [][NextNormalize]_vars

(***************************************************************************)
(* The requests of the generative-text client, attempt by attempt.         *)
(* selectSignificantWords and generateContextualization hand their fetch   *)
(* to retryRequest; generateContextualHint and processBothPassages call    *)
(* fetch themselves, once.                                                 *)
(***************************************************************************)
maxRetries == 3

delayMs == 500

RequestTypes == {"hint", "wordSelection", "batch", "contextualization"}

\* the request methods whose fetch is wrapped in this.retryRequest
usesRetryRequest(type) == type \in {"wordSelection", "contextualization"}

\* what the request function can throw
AttemptErrors ==
  {"fetchRejected", "httpError", "apiError", "noContent", "unusableAnswer"}

\* a variant that waits the same time before every retry
constantDelay(attempt) == delayMs

\* delayMs * Math.pow(2, attempt - 1)
retryDelay(attempt) == delayMs * 2 ^ (attempt - 1)

\* a request method is called
BeginRequest ==
  /\ IF request = NoValue THEN TRUE ELSE request.status \in {"succeeded", "failed"}
  /\ \E type \in RequestTypes :
       request' = [type |-> type, log |-> <<>>, delays |-> <<>>, status |-> "pending",
                   result |-> NoValue]
  /\ UNCHANGED <<engineVars, chatVars, historyVars, selectionVars, extraction>>

\* one pass of the loop of retryRequest: the request function returns, or it
\* throws and the error is rethrown after the last attempt, or waited out
RetryRequestAttempt ==
  /\ request # NoValue
  /\ request.status = "pending"
  /\ usesRetryRequest(request.type)
  /\ \E outcome \in {"ok"} \cup AttemptErrors :
       LET attempt == Len(request.log) + 1
       IN request' =
            [request EXCEPT
               !.log = Append(@, outcome),
               !.delays = IF outcome # "ok" /\ attempt # maxRetries
                            THEN Append(@, retryDelay(attempt)) ELSE @,
               !.status = IF outcome = "ok" THEN "succeeded"
                          ELSE IF attempt = maxRetries THEN "failed"
                          ELSE "waiting",
               !.result = IF outcome = "ok" THEN [ok |-> TRUE, attempt |-> attempt]
                          ELSE IF attempt = maxRetries
                            THEN [ok |-> FALSE, error |-> outcome]
                          ELSE @]
  /\ UNCHANGED <<engineVars, chatVars, historyVars, selectionVars, extraction>>

\* the setTimeout of retryRequest has elapsed
BackoffElapsed ==
  /\ request # NoValue
  /\ request.status = "waiting"
  /\ request' = [request EXCEPT !.status = "pending"]
  /\ UNCHANGED <<engineVars, chatVars, historyVars, selectionVars, extraction>>

\* the fetch of generateContextualHint and of processBothPassages: an error
\* ends the request, as a failure sentence or as an exception
SingleFetch ==
  /\ request # NoValue
  /\ request.status = "pending"
  /\ ~usesRetryRequest(request.type)
  /\ \E outcome \in {"ok"} \cup AttemptErrors :
       request' =
         [request EXCEPT
            !.log = Append(@, outcome),
            !.status = IF outcome = "ok" THEN "succeeded" ELSE "failed",
            !.result = IF outcome = "ok" THEN [ok |-> TRUE, attempt |-> 1]
                       ELSE [ok |-> FALSE, error |-> outcome]]
  /\ UNCHANGED <<engineVars, chatVars, historyVars, selectionVars, extraction>>

NextRetry ==
  \/ BeginRequest
  \/ RetryRequestAttempt
  \/ BackoffElapsed
  \/ SingleFetch

SpecRetry == Init /\ [][NextRetry]_vars

(***************************************************************************)
(* extractCoherentPassage, step by step.  A document is known by its       *)
(* length and by the place of its first ". "; a passage by where it was    *)
(* cut, how long it is and what the quality check said of it.  What the    *)
(* random offset, the sentence clean-up and the measurements of the        *)
(* quality check come to depends on the text and is a free choice among    *)
(* small sets of values.                                                   *)
(***************************************************************************)
\* a variant of the loop bound
sixAttempts == 5 + 1

\* while (attempts < 5)
maxSamplingAttempts == 5

\* text.length and text.indexOf('. ')
Documents ==
  {[length |-> 300, firstPeriod |-> -1],
   [length |-> 300, firstPeriod |-> 40],
   [length |-> 3000, firstPeriod |-> 120],
   [length |-> 3000, firstPeriod |-> 2600]}

noPassage == [from |-> "none", start |-> 0, length |-> 0, verdict |-> "none"]

\* Math.floor(Math.random() * Math.max(0, availableLength - 1000)): the
\* least and the greatest value
randomOffsets(doc) ==
  LET startFromMiddle == (doc.length * 3) \div 10
      endAtThreeQuarters == (doc.length * 8) \div 10
      availableLength == endAtThreeQuarters - startFromMiddle
      range == IF availableLength - 1000 > 0 THEN availableLength - 1000 ELSE 0
  IN IF range = 0 THEN {0} ELSE {0, range - 1}

\* text.substring(startIndex, startIndex + 1000): where it starts and how
\* long it is
sampleWindow(doc, randomOffset) ==
  LET startIndex == (doc.length * 3) \div 10 + randomOffset
      rest == doc.length - startIndex
  IN [start |-> startIndex, length |-> IF rest < 1000 THEN rest ELSE 1000]

\* characters that the clean-up of the start and of the end takes away
CleanUpCuts == {[head |-> 0, tail |-> 0], [head |-> 50, tail |-> 100],
                [head |-> 150, tail |-> 550]}

cleanUp(window, cut) ==
  LET taken == IF cut.head + cut.tail > window.length THEN window.length
               ELSE cut.head + cut.tail
      head == IF cut.head > window.length THEN window.length ELSE cut.head
  IN [start |-> window.start + head, length |-> window.length - taken]

\* what the quality check measures: the share of all-caps words in percent,
\* the longest run of all-caps lines, the quality score in tenths
Measurements ==
  {[capsPercent |-> c, maxConsecutiveCaps |-> m, qualityScore |-> q] :
     c \in {0, 16}, m \in {0, 2}, q \in {0, 30, 31}}

qualityVerdict(measured) ==
  IF measured.capsPercent > 15 THEN "excessiveCaps"
  ELSE IF measured.maxConsecutiveCaps >= 2 THEN "consecutiveCaps"
  ELSE IF measured.qualityScore > 30 THEN "lowQuality"
  ELSE "accepted"

\* passage.lastIndexOf('.') in the fallback window
LastPeriods == {-1, 150, 450}

\* the window after the first ". " of the document, cut after its last
\* period when that lies beyond 200
fallbackWindow(doc, passage, lastPeriod) ==
  LET simpleStart == doc.firstPeriod + 2
  IN IF passage.length < 400 /\ simpleStart > 1 /\ simpleStart < doc.length - 500
       THEN [from    |-> "fallback",
             start   |-> simpleStart,
             length  |-> IF lastPeriod > 200 THEN lastPeriod + 1 ELSE 600,
             verdict |-> "none"]
       ELSE passage

\* passage.trim(): white space at either end goes
TrimmedSpaces == {[head |-> 0, tail |-> 0], [head |-> 1, tail |-> 2]}

trimPassage(passage, spaces) ==
  IF passage.length < spaces.head + spaces.tail THEN passage
  ELSE [passage EXCEPT !.start = @ + spaces.head,
                       !.length = @ - spaces.head - spaces.tail]

InitExtract ==
  /\ currentBook = NoValue
  /\ originalText = ""
  /\ clozeText = <<>>
  /\ blanks = <<>>
  /\ userAnswers = <<>>
  /\ score = 0
  /\ currentRound = 1
  /\ currentLevel = 1
  /\ contextualization = ""
  /\ hints = <<>>
  /\ lastResults = NoValue
  /\ roundResults = <<>>
  /\ currentBooks = <<>>
  /\ passages = <<>>
  /\ currentPassageIndex = 0
  /\ roundsPassedAtCurrentLevel = 0
  /\ preprocessedData = NoValue
  /\ conversations = <<>>
  /\ wordContexts = <<>>
  /\ blankQuestions = <<>>
  /\ chatLevel = 1
  /\ lastOp = "getBookByLevelCriteria"
  /\ returned = [ok |-> TRUE]
  /\ roundPassed = FALSE
  /\ passedRounds = 0
  /\ upstream = NoValue
  /\ selection = NoValue
  /\ batchFailed = FALSE
  /\ request = NoValue
  /\ \E doc \in Documents :
       extraction = [doc |-> doc, attempts |-> 0, samples |-> 0,
                     passage |-> noPassage, pc |-> "while"]

extractFrame ==
  <<engineVars, chatVars, roundPassed, passedRounds, upstream, selectionVars, request>>

\* one pass of the loop: a sample is cut and cleaned; the quality check
\* rejects it, and attempts grows, or accepts it, and the loop is left
SampleAttempt ==
  /\ extraction.pc = "while"
  /\ extraction.attempts < maxSamplingAttempts
  /\ \E randomOffset \in randomOffsets(extraction.doc), cut \in CleanUpCuts,
        measured \in Measurements :
       LET sample == cleanUp(sampleWindow(extraction.doc, randomOffset), cut)
           verdict == qualityVerdict(measured)
       IN extraction' =
            [extraction EXCEPT
               !.samples = @ + 1,
               !.passage = [from |-> "sample", start |-> sample.start,
                            length |-> sample.length, verdict |-> verdict],
               !.attempts = IF verdict = "accepted" THEN @ ELSE @ + 1,
               !.pc = IF verdict = "accepted" THEN "minimum" ELSE "while"]
  /\ UNCHANGED <<extractFrame, lastOp, returned>>

\* the condition of the loop fails
AttemptsExhausted ==
  /\ extraction.pc = "while"
  /\ ~(extraction.attempts < maxSamplingAttempts)
  /\ extraction' = [extraction EXCEPT !.pc = "minimum"]
  /\ UNCHANGED <<extractFrame, lastOp, returned>>

\* the minimum-length test, the fallback window, and the return
ReturnPassage ==
  /\ extraction.pc = "minimum"
  /\ \E lastPeriod \in LastPeriods, spaces \in TrimmedSpaces :
       LET passage == fallbackWindow(extraction.doc, extraction.passage, lastPeriod)
       IN /\ extraction' = [extraction EXCEPT !.passage = passage, !.pc = "done"]
          /\ returned' = [ok |-> TRUE, passage |-> trimPassage(passage, spaces)]
  /\ lastOp' = "extractCoherentPassage"
  /\ UNCHANGED extractFrame

NextExtract ==
  \/ SampleAttempt
  \/ AttemptsExhausted
  \/ ReturnPassage

SpecExtract == InitExtract /\ [][NextExtract]_vars

\* the function runs to its end without waiting for anything
SpecExtractFair == SpecExtract /\ WF_vars(NextExtract)

(***************************************************************************)
(* Level progression.                                                      *)
(***************************************************************************)
\* a step of nextRound: the only handler that moves the round counter
nextRoundStep == currentRound' = currentRound + 1

\* some recorded submission of the round has passed = true
someSubmissionPassed(results) ==
  \E k \in 1..Len(results) : results[k] # NoValue /\ results[k].passed

\* C1: after p rounds that nextRound counted as passed, however the failed
\* rounds are interleaved, the level is 1 + floor(p / 2) and the pass counter
\* is p mod 2: the level rises at the 2nd, 4th, ... passed round.
C1_LevelPerTwoPasses ==
  /\ currentLevel = 1 + passedRounds \div 2
  /\ roundsPassedAtCurrentLevel = passedRounds % 2

\* a failed round between passed ones, and the level has risen once
C1_Witness ==
  /\ lastOp = "nextRound"
  /\ currentRound = 4
  /\ passedRounds = 2
  /\ currentLevel = 2

\* C2: when nextRound closes a round, it counts the round as passed if and
\* only if a recorded submission of one of the round's passages has
\* passed = true.
C2_PassedIffSomePassagePassed ==
  [][nextRoundStep => (roundPassed' <=> someSubmissionPassed(roundResults))]_vars

\* C3: nextRound raises the level, by exactly 1, and resets the pass counter
\* exactly when the round it closes is passed and brings the counter to 2; in
\* every other call the level is unchanged and the counter is not reset.
C3_AdvanceExactlyAtSecondPass ==
  [][nextRoundStep =>
       IF roundPassed' /\ roundsPassedAtCurrentLevel + 1 = 2
         THEN currentLevel' = currentLevel + 1 /\ roundsPassedAtCurrentLevel' = 0
         ELSE /\ currentLevel' = currentLevel
              /\ roundsPassedAtCurrentLevel' >= roundsPassedAtCurrentLevel]_vars

\* the nextRound that closed the second passed round
C3_Witness ==
  /\ lastOp = "nextRound"
  /\ roundPassed
  /\ passedRounds = 2
  /\ currentLevel = 2
  /\ roundsPassedAtCurrentLevel = 0

\* C4: the pass counter grows only in a nextRound that closes a passed round,
\* and by one; a nextRound that closes a failed round leaves the counter and
\* the level as they were; no other handler touches either.
C4_CounterOnlyOnPass ==
  [][/\ roundsPassedAtCurrentLevel' > roundsPassedAtCurrentLevel
          => /\ nextRoundStep
             /\ roundPassed'
             /\ roundsPassedAtCurrentLevel' = roundsPassedAtCurrentLevel + 1
     /\ (nextRoundStep /\ ~roundPassed')
          => /\ roundsPassedAtCurrentLevel' = roundsPassedAtCurrentLevel
             /\ currentLevel' = currentLevel
     /\ ~nextRoundStep
          => /\ roundsPassedAtCurrentLevel' = roundsPassedAtCurrentLevel
             /\ currentLevel' = currentLevel]_vars

\* a failed round closed while a pass was accumulated: the pass is kept
C4_Witness ==
  /\ lastOp = "nextRound"
  /\ ~roundPassed
  /\ passedRounds = 1
  /\ roundsPassedAtCurrentLevel = 1
  /\ currentRound = 3

C6_RequiredCorrect ==
  /\ \A total \in 1..MaxTotal :
       calculateRequiredCorrect(total) =
         IF total = 1 THEN 1 ELSE IF total % 2 = 1 THEN total - 1 ELSE total
  /\ lastResults # NoValue =>
       /\ lastResults.total = Len(blanks)
       /\ lastResults.correct =
            Cardinality({k \in 1..Len(blanks) : userAnswers[k] # "zzz"})
       /\ lastResults.requiredCorrect = calculateRequiredCorrect(lastResults.total)
       /\ lastResults.passed <=> lastResults.correct >= lastResults.requiredCorrect

\* three blanks, one of them missed: the passage is passed
C6_Witness ==
  /\ lastResults # NoValue
  /\ lastResults.total = 3
  /\ lastResults.correct = 2
  /\ lastResults.passed

\* C7: a result with passed = false has shouldRevealAnswers = true and names,
\* for every blank of the passage, the blank's original word as the correct
\* answer, and so does getCurrentAnswers; shouldRevealAnswers is always the
\* negation of passed.
C7_RevealOnFailure ==
  lastResults # NoValue =>
    /\ lastResults.shouldRevealAnswers = ~lastResults.passed
    /\ ~lastResults.passed =>
         /\ lastResults.shouldRevealAnswers
         /\ Len(lastResults.results) = Len(blanks)
         /\ \A k \in 1..Len(blanks) :
              lastResults.results[k].correctAnswer = blanks[k].originalWord
         /\ getCurrentAnswers(lastResults, blanks).shouldRevealAnswers
         /\ \A k \in 1..Len(blanks) :
              getCurrentAnswers(lastResults, blanks).answers[k].correctAnswer
                = blanks[k].originalWord

\* a failed passage of two blanks
C7_Witness ==
  /\ lastResults # NoValue
  /\ ~lastResults.passed
  /\ lastResults.total = 2
  /\ lastResults.shouldRevealAnswers

\* C10: every blank of the current passage is at token index 10 or later.
C10_BlankIndexAtLeast10 ==
  \A k \in 1..Len(blanks) : blanks[k].wordIndex >= 10

(***************************************************************************)
(* Word selection.                                                         *)
(***************************************************************************)
\* the first letter of a token
firstLetter(token) ==
  LET letters == stripNonAlpha(token) IN IF letters = "" THEN "" ELSE Ch(letters, 1)

\* C11: whichever path selected it, the token of every blank of the current
\* passage begins with a lowercase letter.
C11_NoCapitalizedBlank ==
  \A k \in 1..Len(blanks) : firstLetter(blanks[k].originalWord) \notin UpperSet

\* the letters of a word are as many as the level allows, and the word is
\* not on the denylist
acceptableWord(word, level) ==
  LET letters == Len(stripNonAlpha(word))
  IN /\ IF level <= 2 THEN letters \in 4..7
        ELSE IF level <= 4 THEN letters \in 4..10
        ELSE letters \in 5..14
     /\ toLowerCase(stripNonAlpha(word)) \notin problematicWords

\* C12: every word that selectSignificantWords or processBothPassages
\* returns, from an answer that parsed or from one recovered by the regular
\* expressions, has a letter count within the range of the level (4-7 up to
\* level 2, 4-10 up to level 4, 5-14 from level 5) and is not on the denylist.
C12_ReturnedWordsValid ==
  /\ (lastOp = "selectSignificantWords" /\ returned.ok)
       => \A k \in 1..Len(returned.words) :
            acceptableWord(returned.words[k], currentLevel)
  /\ (lastOp = "processBothPassages" /\ returned.ok)
       => /\ \A k \in 1..Len(returned.passage1.words) :
               acceptableWord(returned.passage1.words[k], currentLevel)
          /\ \A k \in 1..Len(returned.passage2.words) :
               acceptableWord(returned.passage2.words[k], currentLevel)

\* a cloze construction has run for the current passage
clozeBuilt == lastOp \in {"createClozeTextFromPreprocessed", "createClozeText"}

\* C13: a cloze construction that returns normally has produced at least one
\* blank: with no usable candidate from the service and none from the
\* fallbacks it fails instead, so that no passage is presented without blanks.
C13_ClozeHasBlankOrFails ==
  (clozeBuilt /\ returned.ok) => Len(blanks) >= 1

\* C14: when fewer tokens were found for the words of the service than blanks
\* were requested (none at all, or the request failed), selectWordsManually
\* is run, on the batch path and on the per-passage path.
C14_FallbackWhenShort ==
  (clozeBuilt /\ selection.usable < selection.requested) => selection.manual

\* C15: in a round whose batch request failed, startNewRound has returned
\* normally, and the cloze of the current passage, the first as well as the
\* second, comes from createClozeText and its own request, not from batch
\* data.
C15_SequentialAfterBatchFailure ==
  batchFailed =>
    /\ lastOp \in {"startNewRound", "nextRound", "nextPassage"} => returned.ok
    /\ selection.path = "createClozeText"

\* C24: when a cloze has been built, by either construction, no two blanks
\* stand on the same token of the passage: their wordIndex values are
\* pairwise distinct, also when the service names a word twice and when
\* fallback words are added to matched ones.
C24_BlankTokensDistinct ==
  clozeBuilt =>
    \A j \in 1..Len(blanks), k \in 1..Len(blanks) :
      j # k => blanks[j].wordIndex # blanks[k].wordIndex

\* the service has named "garden" twice, and the two blanks stand on the two
\* tokens of the passage that read "garden"
C24_Witness ==
  /\ lastOp = "createClozeTextFromPreprocessed"
  /\ Len(blanks) = 2
  /\ blanks[1].originalWord = "garden"
  /\ blanks[2].originalWord = "garden"
  /\ blanks[1].wordIndex # blanks[2].wordIndex

\* C26: when a cloze has been built, by either construction, the blanks are
\* numbered in reading order: the placeholder of blank k stands on the token
\* of blank k, and a blank with a higher index stands later in the passage.
C26_BlanksInReadingOrder ==
  clozeBuilt =>
    /\ \A k \in 1..Len(blanks) :
         At(clozeText, blanks[k].wordIndex) = placeholder(blanks[k].index)
    /\ \A j \in 1..Len(blanks), k \in 1..Len(blanks) :
         j < k => blanks[j].wordIndex < blanks[k].wordIndex

\* C27: the results of a submission report passed only when at least one
\* blank was answered correctly.
C27_PassedNeedsACorrectAnswer ==
  (lastOp = "submitAnswers" /\ lastResults.passed) =>
    \E k \in 1..Len(lastResults.results) : lastResults.results[k].isCorrect

\* C28: between the operations of the engine the pass counter is 0 or 1,
\* the level is at least 1, and no step lowers the level.
C28_CounterBinaryLevelMonotone ==
  /\ [](roundsPassedAtCurrentLevel \in {0, 1} /\ currentLevel >= 1)
  /\ [][currentLevel' >= currentLevel]_vars

\* level 2 has been reached and a further round passed at it
C28_Witness ==
  /\ currentLevel = 2
  /\ roundsPassedAtCurrentLevel = 1
  /\ passedRounds = 3

\* C29: a nextRound that follows a nextRound directly (a repeated call, or a
\* retry after the books of the next round failed to load), no answers
\* submitted in between, changes neither the pass counter nor the level: the
\* passed round is not counted a second time.
C29_PassCountedOnce ==
  [][(lastOp = "nextRound" /\ lastOp' = "nextRound") =>
       (/\ currentLevel' = currentLevel
        /\ roundsPassedAtCurrentLevel' = roundsPassedAtCurrentLevel
        /\ passedRounds' = passedRounds)]_vars

\* the answers that passed are still the current ones (no new passage was
\* set up since they were submitted), the passed round has been counted
\* once, and the nextRound that ran last did not count it again
C29_Witness ==
  /\ lastOp = "nextRound"
  /\ ~roundPassed
  /\ passedRounds = 1
  /\ roundsPassedAtCurrentLevel = 1
  /\ currentRound = 3
  /\ Len(blanks) >= 1
  /\ Len(userAnswers) = Len(blanks)
  /\ \A k \in 1..Len(blanks) :
       toLowerCase(trim(userAnswers[k])) = toLowerCase(blanks[k].originalWord)

\* C30: when a cloze has been built, by either construction and whatever
\* the service returned, the passage has at most as many blanks as the level
\* asks for (1 up to level 5, 2 up to level 10, 3 above), and as many
\* placeholders in its text as it has blanks.
C30_NoMoreBlanksThanLevelAsks ==
  clozeBuilt =>
    LET blanksPerPassage ==
          IF currentLevel <= 5 THEN 1 ELSE IF currentLevel <= 10 THEN 2 ELSE 3
        placeholders ==
          {i \in 1..Len(clozeText) :
             \E k \in 0..(Len(blanks) - 1) : clozeText[i] = placeholder(k)}
    IN /\ Len(blanks) \in 0..blanksPerPassage
       /\ Cardinality(placeholders) = Len(blanks)
       /\ Len(hints) = Len(blanks)

\* the service has listed more words than the level asks for, and the passage
\* has exactly as many blanks as the level asks for
C30_Witness ==
  /\ lastOp = "createClozeTextFromPreprocessed"
  /\ selection.offered > selection.requested
  /\ currentLevel = 12
  /\ Len(blanks) = 3

\* C21: an answer whose only defects are commas before a closing ']' or
\* before a closing '}' is normalized to the structure it denotes: the words
\* returned for each passage are exactly the words listed, none added and
\* none empty.
C21_TrailingCommasNormalized ==
  (lastOp = "processBothPassages" /\ upstream.defects = "trailingCommas") =>
    /\ returned.ok
    /\ returned.passage1.words = upstream.words1
    /\ returned.passage2.words = upstream.words2

(***************************************************************************)
(* The two passages of a round.                                            *)
(***************************************************************************)
\* C23: when startNewRound has completed (at the start of the game or within
\* nextRound) two passages are stored and the passage index is 0; nextPassage
\* at index 0 moves to index 1 and leaves currentRound and the passages as
\* they are; at index 1 it is nextRound, which adds exactly 1 to currentRound;
\* the passage index is always 0 or 1.
C23_TwoPassagesPerRound ==
  /\ [](currentPassageIndex \in {0, 1})
  /\ [][/\ (lastOp' \in {"startNewRound", "nextRound"} /\ returned'.ok) =>
            (Len(passages') = 2 /\ currentPassageIndex' = 0)
        /\ lastOp' = "nextPassage" =>
            /\ currentPassageIndex = 0
            /\ currentPassageIndex' = 1
            /\ currentRound' = currentRound
            /\ passages' = passages
            /\ originalText' = passages[2]
        /\ (lastOp' \in {"nextPassage", "nextRound"} /\ currentPassageIndex = 1) =>
            (lastOp' = "nextRound" /\ currentRound' = currentRound + 1)
        /\ lastOp' = "nextRound" => currentRound' = currentRound + 1]_vars

\* the third round has begun after two rounds of two passages each
C23_Witness ==
  /\ lastOp = "nextRound"
  /\ returned.ok
  /\ currentRound = 3
  /\ currentPassageIndex = 0
  /\ Len(passages) = 2
  /\ passedRounds >= 1

\* C25: the batch result that nextPassage applies to the second passage was
\* obtained in the current round: when the batch request of the current round
\* has failed, the second passage is not built by
\* createClozeTextFromPreprocessed from the words and context that an
\* earlier round left in preprocessedData.
C25_NoBatchResultOfEarlierRound ==
  (lastOp = "nextPassage" /\ currentPassageIndex = 1 /\ batchFailed) =>
    selection.path # "createClozeTextFromPreprocessed"

(***************************************************************************)
(* Requests and passage extraction.                                        *)
(***************************************************************************)
\* C16: a request of any type (hint, word selection, batch, contextualization)
\* makes at most 3 attempts, gives up only after the 3rd, and waits
\* 500 ms, 1000 ms, ... between attempts.
C16_ThreeAttemptsForEveryRequest ==
  request # NoValue =>
    /\ Len(request.log) <= 3
    /\ request.status = "failed" => Len(request.log) = 3
    /\ \A k \in 1..Len(request.delays) : request.delays[k] = 500 * 2 ^ (k - 1)
    /\ Len(request.delays) =
         Cardinality({k \in 1..Len(request.log) : k < 3 /\ request.log[k] # "ok"})

\* C22: retryRequest calls the request function one attempt at a time, at
\* least once and at most 3 times; no attempt follows a successful one, whose
\* value is returned; the k-th failure with k < 3 is followed by a wait of
\* 500 * 2^(k-1) ms; the 3rd failure is rethrown with no further wait.
C22_RetryRequestContract ==
  (request # NoValue /\ request.type \in {"wordSelection", "contextualization"}) =>
    LET made == Len(request.log)
    IN /\ made <= 3
       /\ \A k \in 1..(made - 1) : request.log[k] # "ok"
       /\ \A k \in 1..Len(request.delays) : request.delays[k] = 500 * 2 ^ (k - 1)
       /\ request.status = "pending" =>
            (Len(request.delays) = made /\ request.result = NoValue)
       /\ request.status = "waiting" =>
            (made \in 1..2 /\ request.log[made] # "ok"
               /\ Len(request.delays) = made /\ request.result = NoValue)
       /\ request.status = "succeeded" =>
            (made >= 1 /\ request.log[made] = "ok"
               /\ request.result = [ok |-> TRUE, attempt |-> made]
               /\ Len(request.delays) = made - 1)
       /\ request.status = "failed" =>
            (made = 3 /\ request.result = [ok |-> FALSE, error |-> request.log[3]]
               /\ Len(request.delays) = 2)

\* the third attempt has failed after waits of 500 ms and 1000 ms
C22_Witness ==
  /\ request # NoValue
  /\ request.type = "wordSelection"
  /\ request.status = "failed"
  /\ request.delays = <<500, 1000>>
  /\ request.result = [ok |-> FALSE, error |-> "httpError"]

\* C17: extractCoherentPassage cuts at most 5 samples, whatever the document
\* and whatever the random offsets and the quality check come to, and then
\* returns a passage: every run reaches its return.
C17_ExtractionTerminates ==
  /\ [](extraction.samples <= 5)
  /\ [](extraction.pc = "done" => lastOp = "extractCoherentPassage")
  /\ <>(extraction.pc = "done")

\* five samples cut, all rejected, and the function has returned
C17_Witness ==
  /\ extraction.pc = "done"
  /\ extraction.samples = 5
  /\ extraction.attempts = 5

\* C18: when all 5 samples were rejected, the passage returned is the
\* fallback window after the first sentence boundary of the document; a
\* rejected sample is never returned.
C18_FallbackAfterFiveRejections ==
  extraction.pc = "done" =>
    /\ extraction.attempts = 5 => extraction.passage.from = "fallback"
    /\ extraction.passage.verdict \in {"accepted", "none"}

(***************************************************************************)
(* The hint tracker across passages, and who moves the level.              *)
(***************************************************************************)
\* C19: when nextPassage or nextRound has completed, the word contexts of
\* the hint tracker are those of the blanks of the new current passage, each
\* with the target word, the passage and the book of that passage, and no
\* question type is marked as used for any blank.
C19_TrackerHoldsNewPassageOnly ==
  (lastOp \in {"nextPassage", "nextRound"} /\ returned.ok) =>
    /\ DOMAIN wordContexts = {blanks[k].index : k \in 1..Len(blanks)}
    /\ DOMAIN conversations = DOMAIN wordContexts
    /\ \A k \in 1..Len(blanks) :
         /\ wordContexts[blanks[k].index].targetWord = blanks[k].originalWord
         /\ wordContexts[blanks[k].index].sentence = originalText
         /\ wordContexts[blanks[k].index].bookTitle = currentBook.title
         /\ conversations[blanks[k].index] = <<>>
         /\ \A q \in 1..Len(questions) :
              ~getSuggestedQuestions(blankQuestions, blanks[k].index)[q].used
    /\ \A b \in DOMAIN blankQuestions : blankQuestions[b] = {}

\* the second passage, reached after a question about a blank of the first
C19_Witness ==
  /\ lastOp = "nextPassage"
  /\ currentPassageIndex = 1
  /\ upstream # NoValue
  /\ Len(blanks) >= 1
  /\ blankQuestions = emptyMap

\* C20: a step that changes currentLevel or roundsPassedAtCurrentLevel is a
\* step of nextRound: submitAnswers, nextPassage to the second passage,
\* startNewRound with its cloze construction, askQuestionAboutBlank and
\* getSuggestedQuestionsForBlank leave both as they are.
C20_LevelMovedByNextRoundOnly ==
  [][(currentLevel' # currentLevel
        \/ roundsPassedAtCurrentLevel' # roundsPassedAtCurrentLevel)
       => (lastOp' = "nextRound" /\ currentRound' = currentRound + 1)]_vars

\* a question asked in the second round, one round passed: the pass counter
\* stands at 1
C20_Witness ==
  /\ lastOp = "askQuestion"
  /\ upstream # NoValue
  /\ currentRound = 2
  /\ roundsPassedAtCurrentLevel = 1
  /\ currentLevel = 1

(***************************************************************************)
(* Hints.                                                                  *)
(***************************************************************************)
\* the regular expression of the scrub finds the variation somewhere in s
hasWholeWord(s, variation) ==
  \E i \in 1..(Len(s) + 1) : matchesAt(s, variation, i)

\* the last askQuestion reached the service
askedService == lastOp = "askQuestion" /\ upstream # NoValue

\* C8: a hint that askQuestion returns and that came from the service holds
\* no whole-word occurrence, in any case, of the blank's target word or of
\* the target word without its trailing -ing, -ed or -s.
C8_ServiceHintsScrubbed ==
  (/\ askedService
   /\ upstream.kind = "content"
   /\ returned.response = hintOf[[kind |-> "content", content |-> upstream.content]])
    => LET variations ==
             generateWordVariations(wordContexts[upstream.blankId].targetWord)
       IN \A k \in 1..Len(variations) :
            ~hasWholeWord(returned.response, variations[k])

\* C9: askQuestion for a blank of the current passage returns normally, and
\* when the call to the service failed, the hint is the canned fallback of
\* the question type asked.
C9_FallbackOnUpstreamFailure ==
  askedService =>
    /\ returned.ok
    /\ returned.success
    /\ upstream.kind \in FailureKinds
         => returned.response = fallbacks(returned.questionType)

====
